---- MODULE Spec2Model ----
(***************************************************************************)
(* Service registry of the chain repository (package registry).           *)
(*                                                                         *)
(* Go passes *ServiceInfo pointers: the in-memory backend stores the       *)
(* caller's pointer in its map and hands the same pointers back from       *)
(* Discover.  The model therefore keeps a heap of ServiceInfo structs      *)
(* addressed by pointers; the map holds pointers, never copies.            *)
(*                                                                         *)
(* Time is counted in seconds.  The clock moves from one tick of the sweep  *)
(* to the next; calls made at the instant of a tick fall before or after   *)
(* that tick's pass, which covers both phases of a call against the sweep. *)
(***************************************************************************)
EXTENDS Integers, FiniteSets, Sequences, TLC

VARIABLES
    heap,        \* Ptrs -> ServiceInfo struct, or Nil when not allocated
    services,    \* the backend's services map[string]*ServiceInfo
                 \* (MemoryRegistry.services, EtcdRegistry.services)
    now,         \* time.Now(), seconds
    nextTick,    \* the instant of the next tick of the sweep's ticker
    cancelled,   \* the backend's ctx is done (cancel was called)
    loopAlive,   \* the healthCheckLoop goroutine has not returned
    last,        \* the most recent completed call and what it returned
    kv,          \* the key/value store: key -> [value, lease]
    leases,      \* the store's leases: id -> [deadline, renewing], or NoLease
    leaseID,     \* EtcdRegistry.leaseID
    tasks,       \* the leases whose keep-alive goroutine (go func() { for ka := range ch })
                 \* has not returned
    registry,    \* what NewRegistry was asked for and what it returned
    pc,          \* the call each goroutine is in and its position in it
    mutex,       \* the backend's sync.RWMutex: its writer and its readers
    serial,      \* the map and the structs after the completed calls, applied
                 \* one after the other in the order they released the lock
    catalog,     \* the services the Consul agent holds: ID -> registration
    ctxDone      \* the context the callers pass to the calls is cancelled or expired

\* the goroutines' positions and the lock
procVars == <<pc, mutex, serial>>

vars == <<heap, services, now, nextTick, cancelled, loopAlive, last, kv, leases, leaseID,
          tasks, registry, pc, mutex, serial, catalog, ctxDone>>

----------------------------------------------------------------------------
(* Bounds of the model *)

\* the clock of Spec stops after this many clock steps
MaxSteps == 3

\* the clock of SpecAging stops after this many clock steps
AgingSteps == 5

\* the clock of SpecBeat stops after this many of its finer clock steps
BeatSteps == 9

\* the clock of SpecConcClose stops after this many clock steps
CloseSteps == 1

\* the clock of SpecEtcd stops after this many clock steps
EtcdSteps == 1

\* leases the store grants in SpecEtcd
MaxLeases == 2

\* caller-side ServiceInfo structs that can be live at once
Ptrs == {"p1", "p2"}

IDs == {"svc-1", "svc-2"}
Names == {"pricing", "chain-grpc"}
\* the one service name of SpecAging
AgingName == "pricing"

----------------------------------------------------------------------------
(* Program constants *)

TickerPeriod == 30
\* e.client.Grant(ctx, 30)
LeaseTTL == 30
UnhealthyAfter == 60
RemoveAfter == 120

\* the step of the clock
Quantum == TickerPeriod

\* the nil pointer's target: no struct
Nil == [nil |-> TRUE]
NoErr == "nil"
NoStr == "-"

\* ServiceInfo; Tags and Meta are carried but never read by the in-memory backend
ServiceInfo(id, name, ep, healthy, lastSeen) ==
    [ID |-> id, Name |-> name, Address |-> ep[1], Port |-> ep[2],
     Healthy |-> healthy, LastSeen |-> lastSeen]

\* the pointers stored in the map
Stored == {services[k] : k \in DOMAIN services}

\* what the map holds under an ID: nothing, a healthy or an unhealthy record
Holding(m, h, id) ==
    IF id \notin DOMAIN m THEN "absent"
    ELSE IF h[m[id]].Healthy THEN "healthy" ELSE "unhealthy"

\* a completed call: its name, its argument, what the map held for the ID it
\* names when it was entered, the pointers and the error it returned
CallErr(op, arg, prev, result, err) ==
    [op |-> op, arg |-> arg, prev |-> prev, result |-> result, err |-> err]
Call(op, arg, prev, result) == CallErr(op, arg, prev, result, NoErr)
Idle == Call("-", NoStr, NoStr, {})

\* no registry built by the factory: the backend was constructed directly
NoRegistry == [kind |-> "-"]

\* a goroutine that is in no call
NoCall == [op |-> "-"]

\* the callers' goroutines and the goroutine of healthCheckLoop
Goroutines == {"g1", "g2"}
Sweeper == "sweep"

\* sync.RWMutex, unlocked
FreeMutex == [writer |-> NoStr, readers |-> {}]

MapPut(m, k, v) == [x \in DOMAIN m \cup {k} |-> IF x = k THEN v ELSE m[x]]
MapDel(m, k) == [x \in DOMAIN m \ {k} |-> m[x]]

----------------------------------------------------------------------------
(* Callers *)

\* the address and port a caller advertises; each caller-side struct has its own
EndpointOf(p) == IF p = "p1" THEN <<"10.0.0.5", 9090>> ELSE <<"localhost", 8080>>

\* a caller writes a field of a struct it holds (one it registered, or one
\* Discover returned)
CallerWrite(p, field, value) ==
    /\ heap[p] # Nil
    /\ heap[p][field] # value
    /\ heap' = [heap EXCEPT ![p][field] = value]
    /\ last' = Call("Write", p, NoStr, {})
    /\ UNCHANGED <<services, now, nextTick, cancelled, loopAlive, kv, leases, leaseID, tasks, registry, catalog, ctxDone, procVars>>

\* a struct the map no longer holds is dropped by its caller and collected
Collect(p) ==
    /\ heap[p] # Nil
    /\ p \notin Stored
    /\ heap' = [heap EXCEPT ![p] = Nil]
    /\ last' = Idle
    /\ UNCHANGED <<services, now, nextTick, cancelled, loopAlive, kv, leases, leaseID, tasks, registry, catalog, ctxDone, procVars>>

----------------------------------------------------------------------------
(* MemoryRegistry *)

\* Discover without the "&& service.Healthy" test
DiscoverResult_AnyHealth(serviceName) ==
    {p \in Stored : heap[p].Name = serviceName}

\* the pointers Discover(serviceName) appends to its result
DiscoverResult(serviceName) ==
    {p \in Stored : heap[p].Name = serviceName /\ heap[p].Healthy}

\* Register without "service.Healthy = true"
RegisterUpdate_KeepsHealthy(s, t) == [s EXCEPT !.LastSeen = t]

\* service.Healthy = true; service.LastSeen = time.Now()
RegisterUpdate(s, t) == [s EXCEPT !.Healthy = TRUE, !.LastSeen = t]

\* Register(ctx, service) with service = the struct at p
RegisterCall(h, p) ==
    /\ heap' = [h EXCEPT ![p] = RegisterUpdate(h[p], now)]
    /\ services' = MapPut(services, h[p].ID, p)
    /\ last' = Call("Register", p, Holding(services, h, h[p].ID), {})
    /\ UNCHANGED <<now, nextTick, cancelled, loopAlive, kv, leases, leaseID, tasks, registry, catalog, ctxDone, procVars>>

\* a caller builds &ServiceInfo{...} and registers it
RegisterNew(p, id, name, healthy, lastSeen) ==
    /\ heap[p] = Nil
    /\ RegisterCall([heap EXCEPT ![p] = ServiceInfo(id, name, EndpointOf(p), healthy, lastSeen)], p)

\* a caller registers a struct it already holds once more
Register(p) ==
    /\ heap[p] # Nil
    /\ RegisterCall(heap, p)

\* Deregister that empties the map when it does not hold the ID
DeregisterMap_AbsentResets(m, serviceID) ==
    IF serviceID \in DOMAIN m THEN MapDel(m, serviceID) ELSE <<>>

DeregisterMap(m, serviceID) == IF serviceID \in DOMAIN m THEN MapDel(m, serviceID) ELSE m

Deregister(serviceID) ==
    /\ services' = DeregisterMap(services, serviceID)
    /\ last' = Call("Deregister", serviceID, Holding(services, heap, serviceID), {})
    /\ UNCHANGED <<heap, now, nextTick, cancelled, loopAlive, kv, leases, leaseID, tasks, registry, catalog, ctxDone, procVars>>

Discover(serviceName) ==
    /\ last' = Call("Discover", serviceName, NoStr, DiscoverResult(serviceName))
    /\ UNCHANGED <<heap, services, now, nextTick, cancelled, loopAlive, kv, leases, leaseID, tasks, registry, catalog, ctxDone, procVars>>

\* HealthCheck without "service.Healthy = true"
HealthCheckUpdate_KeepsHealthy(s, t) == [s EXCEPT !.LastSeen = t]

\* service.LastSeen = time.Now(); service.Healthy = true
HealthCheckUpdate(s, t) == [s EXCEPT !.LastSeen = t, !.Healthy = TRUE]

\* HealthCheck that reports an ID the map does not hold
HealthCheck_ErrorsOnAbsent(serviceID) ==
    /\ heap' = IF serviceID \in DOMAIN services
               THEN [heap EXCEPT ![services[serviceID]] = HealthCheckUpdate(@, now)]
               ELSE heap
    /\ last' = IF serviceID \in DOMAIN services
               THEN Call("HealthCheck", serviceID, Holding(services, heap, serviceID), {})
               ELSE CallErr("HealthCheck", serviceID, "absent", {}, "not found")
    /\ UNCHANGED <<services, now, nextTick, cancelled, loopAlive, kv, leases, leaseID, tasks, registry, catalog, ctxDone, procVars>>

\* MemoryRegistry.HealthCheck(ctx, serviceID)
HealthCheck(serviceID) ==
    /\ heap' = IF serviceID \in DOMAIN services
               THEN [heap EXCEPT ![services[serviceID]] = HealthCheckUpdate(@, now)]
               ELSE heap
    /\ last' = Call("HealthCheck", serviceID, Holding(services, heap, serviceID), {})
    /\ UNCHANGED <<services, now, nextTick, cancelled, loopAlive, kv, leases, leaseID, tasks, registry, catalog, ctxDone, procVars>>

Close ==
    /\ cancelled' = TRUE
    /\ last' = Call("Close", NoStr, NoStr, {})
    /\ UNCHANGED <<heap, services, now, nextTick, loopAlive, kv, leases, leaseID, tasks, registry, catalog, ctxDone, procVars>>

\* the 60s threshold taken as reached at exactly 60s
Stale_AtThreshold(s, t) == t - s.LastSeen >= UnhealthyAfter

\* now.Sub(service.LastSeen) > 60*time.Second
Stale(s, t) == t - s.LastSeen > UnhealthyAfter
\* the 120s threshold taken as reached at exactly 120s
Expired_AtThreshold(s, t) == t - s.LastSeen >= RemoveAfter

\* now.Sub(service.LastSeen) > 120*time.Second
Expired(s, t) == t - s.LastSeen > RemoveAfter

\* a sweep that goes on after the loop has returned
Sweep_IgnoresDone ==
    /\ now = nextTick
    /\ heap' = [p \in Ptrs |->
                  IF p \in Stored /\ Stale(heap[p], now)
                  THEN [heap[p] EXCEPT !.Healthy = FALSE]
                  ELSE heap[p]]
    /\ services' = [k \in {x \in DOMAIN services : ~Expired(heap[services[x]], now)}
                      |-> services[k]]
    /\ nextTick' = nextTick + TickerPeriod
    /\ last' = Call("Sweep", NoStr, NoStr, {})
    /\ UNCHANGED <<now, cancelled, loopAlive, kv, leases, leaseID, tasks, registry, catalog,
                   ctxDone, procVars>>

\* one pass of the loop body: case <-ticker.C
Sweep ==
    /\ loopAlive
    /\ now = nextTick
    /\ heap' = [p \in Ptrs |->
                  IF p \in Stored /\ Stale(heap[p], now)
                  THEN [heap[p] EXCEPT !.Healthy = FALSE]
                  ELSE heap[p]]
    /\ services' = [k \in {x \in DOMAIN services : ~Expired(heap[services[x]], now)}
                      |-> services[k]]
    /\ nextTick' = nextTick + TickerPeriod
    /\ last' = Call("Sweep", NoStr, NoStr, {})
    /\ UNCHANGED <<now, cancelled, loopAlive, kv, leases, leaseID, tasks, registry, catalog, ctxDone, procVars>>

\* case <-m.ctx.Done(): return
LoopExit ==
    /\ loopAlive
    /\ cancelled
    /\ loopAlive' = FALSE
    /\ last' = Idle
    /\ UNCHANGED <<heap, services, now, nextTick, cancelled, kv, leases, leaseID, tasks, registry, catalog, ctxDone, procVars>>

\* time passes; a pending tick is served before the clock moves past it
Advance(steps) ==
    /\ now + Quantum <= steps * Quantum
    /\ loopAlive => now + Quantum <= nextTick
    /\ now' = now + Quantum
    /\ last' = Idle
    /\ UNCHANGED <<heap, services, nextTick, cancelled, loopAlive, kv, leases, leaseID, tasks, registry, catalog, ctxDone, procVars>>

\* a clock step finer than the ticker's period, so that heartbeats fall at
\* every phase of the ticks
BeatQuantum == TickerPeriod \div 3

\* time passes by one fine step, with owners that let no record they keep
\* registered go more than 60s without a HealthCheck or Register; a pending
\* tick is served before the clock moves past it
BeatAdvance ==
    /\ now + BeatQuantum <= BeatSteps * BeatQuantum
    /\ loopAlive => now + BeatQuantum <= nextTick
    /\ \A p \in Stored : (now + BeatQuantum) - heap[p].LastSeen <= UnhealthyAfter
    /\ now' = now + BeatQuantum
    /\ last' = Idle
    /\ UNCHANGED <<heap, services, nextTick, cancelled, loopAlive, kv, leases, leaseID, tasks,
                   registry, catalog, ctxDone, procVars>>

----------------------------------------------------------------------------
(* MemoryRegistry, statement by statement: goroutines and the RWMutex *)

\* the values of a map
Range(m) == {m[k] : k \in DOMAIN m}

\* m.mutex.Lock() that never blocks
CanLock_Always(mu) == TRUE

\* m.mutex.Lock() returns: no writer and no reader holds the lock
CanLock(mu) == mu.writer = NoStr /\ mu.readers = {}

\* m.mutex.RLock() returns: no writer holds the lock
CanRLock(mu) == mu.writer = NoStr

\* the struct pointers a goroutine is working on
InUse(p) == \E g \in Goroutines : pc[g].op = "Register" /\ pc[g].arg = p

\* goroutine g enters a call and takes the write lock
Lock(g, call) ==
    /\ pc[g] = NoCall
    /\ CanLock(mutex)
    /\ mutex' = [mutex EXCEPT !.writer = g]
    /\ pc' = [pc EXCEPT ![g] = call]

\* Register: the caller builds the struct, calls Register; m.mutex.Lock()
RegisterLock(g, p, id, name, healthy) ==
    LET svc == ServiceInfo(id, name, EndpointOf(p), healthy, 0) IN
    /\ heap[p] = Nil
    /\ ~InUse(p)
    /\ Lock(g, [op |-> "Register", arg |-> p, step |-> "Healthy", svc |-> svc, t |-> 0])
    /\ heap' = [heap EXCEPT ![p] = svc]
    /\ UNCHANGED <<services, now, nextTick, cancelled, loopAlive, last, kv, leases, leaseID,
                   tasks, registry, catalog, ctxDone, serial>>

\* service.Healthy = true
RegisterSetHealthy(g) ==
    /\ pc[g].op = "Register" /\ pc[g].step = "Healthy"
    /\ heap' = [heap EXCEPT ![pc[g].arg].Healthy = TRUE]
    /\ pc' = [pc EXCEPT ![g].step = "LastSeen"]
    /\ UNCHANGED <<services, now, nextTick, cancelled, loopAlive, last, kv, leases, leaseID,
                   tasks, registry, catalog, ctxDone, mutex, serial>>

\* service.LastSeen = time.Now()
RegisterSetLastSeen(g) ==
    /\ pc[g].op = "Register" /\ pc[g].step = "LastSeen"
    /\ heap' = [heap EXCEPT ![pc[g].arg].LastSeen = now]
    /\ pc' = [pc EXCEPT ![g].step = "Store", ![g].t = now]
    /\ UNCHANGED <<services, now, nextTick, cancelled, loopAlive, last, kv, leases, leaseID,
                   tasks, registry, catalog, ctxDone, mutex, serial>>

\* m.services[service.ID] = service
RegisterStore(g) ==
    /\ pc[g].op = "Register" /\ pc[g].step = "Store"
    /\ services' = MapPut(services, heap[pc[g].arg].ID, pc[g].arg)
    /\ pc' = [pc EXCEPT ![g].step = "Unlock"]
    /\ UNCHANGED <<heap, now, nextTick, cancelled, loopAlive, last, kv, leases, leaseID,
                   tasks, registry, catalog, ctxDone, mutex, serial>>

\* Deregister: m.mutex.Lock()
DeregisterLock(g, serviceID) ==
    /\ Lock(g, [op |-> "Deregister", arg |-> serviceID, step |-> "Delete"])
    /\ UNCHANGED <<heap, services, now, nextTick, cancelled, loopAlive, last, kv, leases, leaseID,
                   tasks, registry, catalog, ctxDone, serial>>

\* if service, exists := m.services[serviceID]; exists { delete(m.services, serviceID) }
DeregisterDelete(g) ==
    /\ pc[g].op = "Deregister" /\ pc[g].step = "Delete"
    /\ services' = DeregisterMap(services, pc[g].arg)
    /\ pc' = [pc EXCEPT ![g].step = "Unlock"]
    /\ UNCHANGED <<heap, now, nextTick, cancelled, loopAlive, last, kv, leases, leaseID,
                   tasks, registry, catalog, ctxDone, mutex, serial>>

\* HealthCheck: m.mutex.Lock()
HealthCheckLock(g, serviceID) ==
    /\ Lock(g, [op |-> "HealthCheck", arg |-> serviceID, step |-> "LastSeen", t |-> 0])
    /\ UNCHANGED <<heap, services, now, nextTick, cancelled, loopAlive, last, kv, leases, leaseID,
                   tasks, registry, catalog, ctxDone, serial>>

\* if service, exists := m.services[serviceID]; exists { service.LastSeen = time.Now()
HealthCheckSetLastSeen(g) ==
    /\ pc[g].op = "HealthCheck" /\ pc[g].step = "LastSeen"
    /\ IF pc[g].arg \in DOMAIN services
       THEN /\ heap' = [heap EXCEPT ![services[pc[g].arg]].LastSeen = now]
            /\ pc' = [pc EXCEPT ![g].step = "Healthy", ![g].t = now]
       ELSE /\ heap' = heap
            /\ pc' = [pc EXCEPT ![g].step = "Unlock"]
    /\ UNCHANGED <<services, now, nextTick, cancelled, loopAlive, last, kv, leases, leaseID,
                   tasks, registry, catalog, ctxDone, mutex, serial>>

\* service.Healthy = true }
HealthCheckSetHealthy(g) ==
    /\ pc[g].op = "HealthCheck" /\ pc[g].step = "Healthy"
    /\ heap' = IF pc[g].arg \in DOMAIN services
               THEN [heap EXCEPT ![services[pc[g].arg]].Healthy = TRUE]
               ELSE heap
    /\ pc' = [pc EXCEPT ![g].step = "Unlock"]
    /\ UNCHANGED <<services, now, nextTick, cancelled, loopAlive, last, kv, leases, leaseID,
                   tasks, registry, catalog, ctxDone, mutex, serial>>

\* healthCheckLoop: case <-ticker.C: m.mutex.Lock(); now := time.Now()
SweepLock ==
    /\ loopAlive
    /\ now = nextTick
    /\ Lock(Sweeper, [op |-> "Sweep", step |-> "Range", t |-> now, todo |-> DOMAIN services])
    /\ nextTick' = nextTick + TickerPeriod
    /\ UNCHANGED <<heap, services, now, cancelled, loopAlive, last, kv, leases, leaseID,
                   tasks, registry, catalog, ctxDone, serial>>

\* one iteration of for id, service := range m.services
SweepVisit(id) ==
    /\ pc[Sweeper].op = "Sweep" /\ pc[Sweeper].step = "Range"
    /\ id \in pc[Sweeper].todo
    /\ pc' = [pc EXCEPT ![Sweeper].todo = @ \ {id}]
    /\ IF id \in DOMAIN services
       THEN LET service == heap[services[id]] IN
            /\ heap' = IF Stale(service, pc[Sweeper].t)
                       THEN [heap EXCEPT ![services[id]].Healthy = FALSE]
                       ELSE heap
            /\ services' = IF Expired(service, pc[Sweeper].t)
                           THEN MapDel(services, id)
                           ELSE services
       ELSE UNCHANGED <<heap, services>>
    /\ UNCHANGED <<now, nextTick, cancelled, loopAlive, last, kv, leases, leaseID,
                   tasks, registry, catalog, ctxDone, mutex, serial>>

\* the range is over
SweepDone ==
    /\ pc[Sweeper].op = "Sweep" /\ pc[Sweeper].step = "Range"
    /\ pc[Sweeper].todo = {}
    /\ pc' = [pc EXCEPT ![Sweeper].step = "Unlock"]
    /\ UNCHANGED <<heap, services, now, nextTick, cancelled, loopAlive, last, kv, leases, leaseID,
                   tasks, registry, catalog, ctxDone, mutex, serial>>

\* what a call that ran alone would have made of the map and the structs
SerialEffect(s, call) ==
    IF call.op = "Register"
    THEN [heap |-> [s.heap EXCEPT ![call.arg] = RegisterUpdate(call.svc, call.t)],
          services |-> MapPut(s.services, call.svc.ID, call.arg)]
    ELSE IF call.op = "Deregister"
    THEN [s EXCEPT !.services = DeregisterMap(@, call.arg)]
    ELSE IF call.op = "HealthCheck"
    THEN IF call.arg \in DOMAIN s.services
         THEN [s EXCEPT !.heap[s.services[call.arg]] = HealthCheckUpdate(@, call.t)]
         ELSE s
    ELSE [heap |-> [p \in Ptrs |->
                      IF p \in Range(s.services) /\ Stale(s.heap[p], call.t)
                      THEN [s.heap[p] EXCEPT !.Healthy = FALSE]
                      ELSE s.heap[p]],
          services |-> [k \in {x \in DOMAIN s.services :
                                  ~Expired(s.heap[s.services[x]], call.t)}
                          |-> s.services[k]]]

\* a return that leaves the lock held
Unlock_Forgets(g) ==
    /\ pc[g] # NoCall
    /\ pc[g].step = "Unlock"
    /\ serial' = SerialEffect(serial, pc[g])
    /\ pc' = [pc EXCEPT ![g] = NoCall]
    /\ UNCHANGED <<heap, services, now, nextTick, cancelled, loopAlive, last, kv, leases, leaseID,
                   tasks, registry, catalog, ctxDone, mutex>>

\* m.mutex.Unlock() (deferred in the calls): the call is complete
Unlock(g) ==
    /\ pc[g] # NoCall
    /\ pc[g].step = "Unlock"
    /\ mutex' = [mutex EXCEPT !.writer = NoStr]
    /\ serial' = SerialEffect(serial, pc[g])
    /\ pc' = [pc EXCEPT ![g] = NoCall]
    /\ UNCHANGED <<heap, services, now, nextTick, cancelled, loopAlive, last, kv, leases, leaseID,
                   tasks, registry, catalog, ctxDone>>

\* Discover: m.mutex.RLock()
DiscoverRLock(g, serviceName) ==
    /\ pc[g] = NoCall
    /\ CanRLock(mutex)
    /\ mutex' = [mutex EXCEPT !.readers = @ \cup {g}]
    /\ pc' = [pc EXCEPT ![g] = [op |-> "Discover", arg |-> serviceName, step |-> "Range",
                                 todo |-> DOMAIN services, result |-> {}]]
    /\ UNCHANGED <<heap, services, now, nextTick, cancelled, loopAlive, last, kv, leases, leaseID,
                   tasks, registry, catalog, ctxDone, serial>>

\* one iteration of for _, service := range m.services
DiscoverVisit(g, id) ==
    /\ pc[g].op = "Discover" /\ pc[g].step = "Range"
    /\ id \in pc[g].todo
    /\ pc' = [pc EXCEPT ![g].todo = @ \ {id},
                        ![g].result =
                            IF id \in DOMAIN services
                            THEN IF /\ heap[services[id]].Name = pc[g].arg
                                    /\ heap[services[id]].Healthy
                                 THEN @ \cup {services[id]} ELSE @
                            ELSE @]
    /\ UNCHANGED <<heap, services, now, nextTick, cancelled, loopAlive, last, kv, leases, leaseID,
                   tasks, registry, catalog, ctxDone, mutex, serial>>

\* return result, nil; m.mutex.RUnlock() (deferred)
DiscoverRUnlock(g) ==
    /\ pc[g].op = "Discover" /\ pc[g].step = "Range"
    /\ pc[g].todo = {}
    /\ mutex' = [mutex EXCEPT !.readers = @ \ {g}]
    /\ pc' = [pc EXCEPT ![g] = NoCall]
    /\ UNCHANGED <<heap, services, now, nextTick, cancelled, loopAlive, last, kv, leases, leaseID,
                   tasks, registry, catalog, ctxDone, serial>>

\* time passes while the goroutines run
ConcAdvance(steps) ==
    /\ now + Quantum <= steps * Quantum
    /\ loopAlive => now + Quantum <= nextTick
    /\ now' = now + Quantum
    /\ UNCHANGED <<heap, services, nextTick, cancelled, loopAlive, last, kv, leases, leaseID,
                   tasks, registry, catalog, ctxDone, procVars>>

\* a struct no goroutine and no map entry refers to is collected
ConcCollect(p) ==
    /\ ~InUse(p)
    /\ \A g \in Goroutines : pc[g].op = "Discover" => p \notin pc[g].result
    /\ heap[p] # Nil
    /\ p \notin Stored
    /\ heap' = [heap EXCEPT ![p] = Nil]
    /\ UNCHANGED <<services, now, nextTick, cancelled, loopAlive, last, kv, leases, leaseID,
                   tasks, registry, catalog, ctxDone, procVars>>

----------------------------------------------------------------------------
(* MemoryRegistry: calls that wait for the lock, and Close *)

\* goroutine g enters a call; its first statement takes the lock
Begin(g, call) ==
    /\ pc[g] = NoCall
    /\ pc' = [pc EXCEPT ![g] = call]

RegisterBegin(g, p, id, name, healthy) ==
    LET svc == ServiceInfo(id, name, EndpointOf(p), healthy, 0) IN
    /\ heap[p] = Nil
    /\ ~InUse(p)
    /\ Begin(g, [op |-> "Register", arg |-> p, step |-> "Lock", then |-> "Healthy",
                 svc |-> svc, t |-> 0])
    /\ heap' = [heap EXCEPT ![p] = svc]
    /\ UNCHANGED <<services, now, nextTick, cancelled, loopAlive, last, kv, leases, leaseID,
                   tasks, registry, catalog, ctxDone, mutex, serial>>

DeregisterBegin(g, serviceID) ==
    /\ Begin(g, [op |-> "Deregister", arg |-> serviceID, step |-> "Lock", then |-> "Delete"])
    /\ UNCHANGED <<heap, services, now, nextTick, cancelled, loopAlive, last, kv, leases, leaseID,
                   tasks, registry, catalog, ctxDone, mutex, serial>>

HealthCheckBegin(g, serviceID) ==
    /\ Begin(g, [op |-> "HealthCheck", arg |-> serviceID, step |-> "Lock", then |-> "LastSeen",
                 t |-> 0])
    /\ UNCHANGED <<heap, services, now, nextTick, cancelled, loopAlive, last, kv, leases, leaseID,
                   tasks, registry, catalog, ctxDone, mutex, serial>>

DiscoverBegin(g, serviceName) ==
    /\ Begin(g, [op |-> "Discover", arg |-> serviceName, step |-> "RLock",
                 todo |-> {}, result |-> {}])
    /\ UNCHANGED <<heap, services, now, nextTick, cancelled, loopAlive, last, kv, leases, leaseID,
                   tasks, registry, catalog, ctxDone, mutex, serial>>

\* healthCheckLoop: case <-ticker.C; the next statement is m.mutex.Lock()
SweepBegin ==
    /\ loopAlive
    /\ now = nextTick
    /\ Begin(Sweeper, [op |-> "Sweep", step |-> "Lock", then |-> "Range", t |-> 0, todo |-> {}])
    /\ nextTick' = nextTick + TickerPeriod
    /\ UNCHANGED <<heap, services, now, cancelled, loopAlive, last, kv, leases, leaseID,
                   tasks, registry, catalog, ctxDone, mutex, serial>>

\* m.mutex.Lock() returns; the sweep then reads time.Now() and starts its range
Acquire(g) ==
    /\ pc[g] # NoCall
    /\ pc[g].step = "Lock"
    /\ CanLock(mutex)
    /\ mutex' = [mutex EXCEPT !.writer = g]
    /\ pc' = IF g = Sweeper
             THEN [pc EXCEPT ![g].step = "Range", ![g].t = now, ![g].todo = DOMAIN services]
             ELSE [pc EXCEPT ![g].step = pc[g].then]
    /\ UNCHANGED <<heap, services, now, nextTick, cancelled, loopAlive, last, kv, leases, leaseID,
                   tasks, registry, catalog, ctxDone, serial>>

\* m.mutex.RLock() returns
RAcquire(g) ==
    /\ pc[g] # NoCall
    /\ pc[g].step = "RLock"
    /\ CanRLock(mutex)
    /\ mutex' = [mutex EXCEPT !.readers = @ \cup {g}]
    /\ pc' = [pc EXCEPT ![g].step = "Range", ![g].todo = DOMAIN services]
    /\ UNCHANGED <<heap, services, now, nextTick, cancelled, loopAlive, last, kv, leases, leaseID,
                   tasks, registry, catalog, ctxDone, serial>>

\* case <-m.ctx.Done(): return, taken when the loop is at its select
ConcLoopExit ==
    /\ pc[Sweeper] = NoCall
    /\ LoopExit

\* the goroutines that are in a call, and the sweep when in a pass
InFlight == {g \in Goroutines \cup {Sweeper} : pc[g] # NoCall}

\* g waits for a lock it cannot get now
Blocked(g) ==
    /\ pc[g] # NoCall
    /\ \/ pc[g].step = "Lock" /\ ~CanLock(mutex)
       \/ pc[g].step = "RLock" /\ ~CanRLock(mutex)

----------------------------------------------------------------------------
(* The key/value store and its leases *)

NoLease == [none |-> TRUE]

\* service names of which one holds a '/' and starts with the other
SlashNames == {"a", "a/b"}

\* the '/'-separated segments of a string
Segs(str) == IF str = "a/b" THEN <<"a", "b">> ELSE <<str>>

\* fmt.Sprintf("/services/%s/%s", name, id)
Key(name, id) == <<"services">> \o Segs(name) \o Segs(id)

\* fmt.Sprintf("/services/%s/", serviceName)
Prefix(serviceName) == <<"services">> \o Segs(serviceName)

\* clientv3.WithPrefix(): the key starts with the prefix, which ends in '/'
HasPrefix(key, prefix) ==
    /\ Len(key) > Len(prefix)
    /\ SubSeq(key, 1, Len(prefix)) = prefix

\* json.Marshal(service): the flat JSON object of the struct's tagged fields
\* (tags and meta, not modelled in the struct, are left out)
Marshal(s) ==
    [id |-> s.ID, name |-> s.Name, address |-> s.Address, port |-> s.Port,
     healthy |-> s.Healthy, last_seen |-> s.LastSeen]

\* bytes that are not a JSON object with fields of the struct's types; all
\* other values of the store are JSON objects, given as records of their fields
BadJSON == [raw |-> "not json"]

\* what json.Unmarshal does not accept
Malformed(v) == "raw" \in DOMAIN v

\* the value of field f of the JSON object v, or the zero value of the
\* struct's field when the object has no such field
Field(v, f, zero) == IF f \in DOMAIN v THEN v[f] ELSE zero

\* the zero time.Time, before every reading of the clock
ZeroTime == -1

\* json.Unmarshal(kv.Value, &service) into a zero ServiceInfo
Unmarshal(v) ==
    [ID |-> Field(v, "id", ""), Name |-> Field(v, "name", ""),
     Address |-> Field(v, "address", ""), Port |-> Field(v, "port", 0),
     Healthy |-> Field(v, "healthy", FALSE), LastSeen |-> Field(v, "last_seen", ZeroTime)]

Granted == {l \in 1..MaxLeases : leases[l] # NoLease}

\* the outcomes of a request to the store
Outcomes == {"ok", "fail"}

\* Discover with a return in place of the continue: the first value that does
\* not unmarshal ends the scan
EtcdDiscoverResult_AbortsOnMalformed(serviceName) ==
    IF \E x \in DOMAIN kv : HasPrefix(x, Prefix(serviceName)) /\ Malformed(kv[x].value)
    THEN {}
    ELSE {Unmarshal(kv[k].value) : k \in {x \in DOMAIN kv : HasPrefix(x, Prefix(serviceName))}}

\* the structs Discover(serviceName) builds from the values under the prefix;
\* a value that does not unmarshal is skipped
EtcdDiscoverResult(serviceName) ==
    {Unmarshal(kv[k].value) :
        k \in {x \in DOMAIN kv : HasPrefix(x, Prefix(serviceName)) /\ ~Malformed(kv[x].value)}}

\* Put without clientv3.WithLease(lease.ID): the key is bound to no lease
PutValue_NoLease(s, l) == [value |-> Marshal(s), lease |-> 0]

\* what Put stores under the key: string(serviceData), bound to the lease
PutValue(s, l) == [value |-> Marshal(s), lease |-> l]

\* the request of Register that fails, if any
RegisterFaults == {"none", "grant", "put", "keepAlive"}

\* EtcdRegistry.Register(ctx, service) with service = the struct at p; fault
\* names the request to the store that fails.  KeepAlive on a cancelled e.ctx
\* fails.
EtcdRegisterCall(h, p, fault) ==
    LET l == leaseID + 1   \* the store never hands out a lease ID twice
        key == Key(h[p].Name, h[p].ID)
        prev == Holding(services, h, h[p].ID)
        lease(renewing) == [deadline |-> now + LeaseTTL, renewing |-> renewing]
    IN
    /\ fault = "keepAlive" => ~cancelled
    /\ ctxDone => fault = "grant"
    /\ IF fault = "grant"
       THEN /\ last' = CallErr("Register", p, prev, {}, "failed to create lease")
            /\ UNCHANGED <<heap, services, kv, leases, leaseID, tasks>>
       ELSE /\ l <= MaxLeases
            /\ leaseID' = l
            /\ IF fault = "put"
               THEN /\ leases' = [leases EXCEPT ![l] = lease(FALSE)]
                    /\ last' = CallErr("Register", p, prev, {}, "failed to register service")
                    /\ UNCHANGED <<heap, services, kv, tasks>>
               ELSE /\ kv' = MapPut(kv, key, PutValue(h[p], l))
                    /\ IF fault = "keepAlive" \/ cancelled
                       THEN /\ leases' = [leases EXCEPT ![l] = lease(FALSE)]
                            /\ last' = CallErr("Register", p, prev, {}, "failed to keep alive lease")
                            /\ UNCHANGED <<heap, services, tasks>>
                       ELSE /\ leases' = [leases EXCEPT ![l] = lease(TRUE)]
                            /\ heap' = h
                            /\ services' = MapPut(services, h[p].ID, p)
                            /\ tasks' = tasks \cup {l}
                            /\ last' = Call("Register", p, prev, {})
    /\ UNCHANGED <<now, nextTick, cancelled, loopAlive, registry, catalog, ctxDone, procVars>>

\* a caller builds &ServiceInfo{...} and registers it; when Register fails the
\* caller keeps no struct
EtcdRegisterNew(p, id, name, healthy, fault) ==
    /\ heap[p] = Nil
    /\ EtcdRegisterCall([heap EXCEPT ![p] = ServiceInfo(id, name, EndpointOf(p), healthy, 0)],
                        p, fault)

\* a caller registers a struct it already holds once more
EtcdRegister(p, fault) ==
    /\ heap[p] # Nil
    /\ EtcdRegisterCall(heap, p, fault)

\* Deregister with delete(e.services, serviceID) moved before the store request
EtcdDeregisterLocal_BeforeDelete(m, serviceID, delete) == MapDel(m, serviceID)

\* the bookkeeping Deregister leaves for an ID it holds: the entry is deleted
\* only after the store's Delete returned no error
EtcdDeregisterLocal(m, serviceID, delete) ==
    IF delete = "fail" THEN m ELSE MapDel(m, serviceID)

\* EtcdRegistry.Deregister(ctx, serviceID); a Delete that fails leaves the
\* store as it was
EtcdDeregister(serviceID, delete) ==
    LET prev == Holding(services, heap, serviceID) IN
    /\ ctxDone => delete = "fail"
    /\ IF serviceID \notin DOMAIN services
       THEN /\ last' = CallErr("Deregister", serviceID, prev, {}, "not found")
            /\ UNCHANGED <<services, kv>>
       ELSE /\ kv' = IF delete = "fail" THEN kv
                     ELSE DeregisterMap(kv, Key(heap[services[serviceID]].Name, serviceID))
            /\ services' = EtcdDeregisterLocal(services, serviceID, delete)
            /\ last' = IF delete = "fail"
                       THEN CallErr("Deregister", serviceID, prev, {}, "failed to deregister service")
                       ELSE Call("Deregister", serviceID, prev, {})
    /\ UNCHANGED <<heap, now, nextTick, cancelled, loopAlive, leases, leaseID, tasks, registry, catalog, ctxDone, procVars>>

\* Discover that returns what it has, and no error, when the Get failed
EtcdDiscover_SwallowsError(serviceName, get) ==
    /\ ctxDone => get = "fail"
    /\ last' = Call("Discover", serviceName, NoStr,
                    IF get = "fail" THEN {} ELSE EtcdDiscoverResult(serviceName))
    /\ UNCHANGED <<heap, services, now, nextTick, cancelled, loopAlive, kv, leases, leaseID, tasks, registry, catalog, ctxDone, procVars>>

\* EtcdRegistry.Discover(ctx, serviceName); a request made with a context that
\* is done fails
EtcdDiscover(serviceName, get) ==
    /\ ctxDone => get = "fail"
    /\ last' = IF get = "fail"
               THEN CallErr("Discover", serviceName, NoStr, {}, "failed to discover services")
               ELSE Call("Discover", serviceName, NoStr, EtcdDiscoverResult(serviceName))
    /\ UNCHANGED <<heap, services, now, nextTick, cancelled, loopAlive, kv, leases, leaseID, tasks, registry, catalog, ctxDone, procVars>>

\* HealthCheck that trusts the local bookkeeping and makes no request
EtcdHealthCheck_LocalOnly(serviceID, get) ==
    LET prev == Holding(services, heap, serviceID) IN
    /\ ctxDone => get = "fail"
    /\ last' = IF serviceID \notin DOMAIN services
               THEN CallErr("HealthCheck", serviceID, prev, {}, "not found")
               ELSE Call("HealthCheck", serviceID, prev, {})
    /\ UNCHANGED <<heap, services, now, nextTick, cancelled, loopAlive, kv, leases, leaseID, tasks, registry, catalog, ctxDone, procVars>>

\* EtcdRegistry.HealthCheck(ctx, serviceID)
EtcdHealthCheck(serviceID, get) ==
    LET prev == Holding(services, heap, serviceID) IN
    /\ ctxDone => get = "fail"
    /\ last' = IF serviceID \notin DOMAIN services
               THEN CallErr("HealthCheck", serviceID, prev, {}, "not found")
               ELSE IF get = "fail"
               THEN CallErr("HealthCheck", serviceID, prev, {}, "failed to check service health")
               ELSE IF Key(heap[services[serviceID]].Name, serviceID) \notin DOMAIN kv
               THEN CallErr("HealthCheck", serviceID, prev, {}, "not found in etcd")
               ELSE Call("HealthCheck", serviceID, prev, {})
    /\ UNCHANGED <<heap, services, now, nextTick, cancelled, loopAlive, kv, leases, leaseID, tasks, registry, catalog, ctxDone, procVars>>

\* the values another client of the store writes under a key of the registry's
\* prefix: bytes that are no JSON, an object with only some of the fields, and a
\* record marshalled by another instance
ForeignValues(name, id) ==
    {BadJSON, [id |-> id], Marshal(ServiceInfo(id, name, <<"10.0.0.9", 7070>>, TRUE, 0))}

\* another client of the store puts a value, bound to no lease
ForeignPut(name, id, v) ==
    /\ kv' = MapPut(kv, Key(name, id), [value |-> v, lease |-> 0])
    /\ last' = Idle
    /\ UNCHANGED <<heap, services, now, nextTick, cancelled, loopAlive, leases, leaseID, tasks,
                   registry, catalog, ctxDone, procVars>>

\* another client of the store deletes a key
ForeignDelete(name, id) ==
    /\ Key(name, id) \in DOMAIN kv
    /\ kv' = MapDel(kv, Key(name, id))
    /\ last' = Idle
    /\ UNCHANGED <<heap, services, now, nextTick, cancelled, loopAlive, leases, leaseID, tasks,
                   registry, catalog, ctxDone, procVars>>

\* the context the callers pass to the calls is cancelled or runs out
CtxCancel ==
    /\ ~ctxDone
    /\ ctxDone' = TRUE
    /\ last' = Idle
    /\ UNCHANGED <<heap, services, now, nextTick, cancelled, loopAlive, kv, leases, leaseID, tasks,
                   registry, catalog, procVars>>

\* Close without e.cancel(): the KeepAlive streams go on
CancelKeepAlive_Noop(ls) == ls

\* e.cancel(): every KeepAlive stream opened on e.ctx ends
CancelKeepAlive(ls) ==
    [l \in DOMAIN ls |->
        IF ls[l] # NoLease THEN [ls[l] EXCEPT !.renewing = FALSE] ELSE NoLease]

\* EtcdRegistry.Close(): e.cancel(), e.client.Close()
EtcdClose ==
    /\ cancelled' = TRUE
    /\ leases' = CancelKeepAlive(leases)
    /\ last' = Call("Close", NoStr, NoStr, {})
    /\ UNCHANGED <<heap, services, now, nextTick, loopAlive, kv, leaseID, tasks, registry, catalog, ctxDone, procVars>>

\* for ka := range ch ends when the KeepAlive stream of the lease has ended and
\* its channel is closed: the goroutine returns
KeepAliveExit(l) ==
    /\ l \in tasks
    /\ IF leases[l] = NoLease THEN TRUE ELSE ~leases[l].renewing
    /\ tasks' = tasks \ {l}
    /\ last' = Idle
    /\ UNCHANGED <<heap, services, now, nextTick, cancelled, loopAlive, kv, leases, leaseID,
                   registry, catalog, ctxDone, procVars>>

\* the renewal stream of a lease ends while e.ctx is live: the store cannot
\* be reached for longer than the TTL
KeepAliveLost(l) ==
    /\ leases[l] # NoLease
    /\ leases[l].renewing
    /\ leases' = [leases EXCEPT ![l].renewing = FALSE]
    /\ last' = Idle
    /\ UNCHANGED <<heap, services, now, nextTick, cancelled, loopAlive, kv, leaseID, tasks,
                   registry, catalog, ctxDone, procVars>>

\* a store that drops a lease and keeps its keys
LeaseExpire_KeepsKeys(l) ==
    /\ leases[l] # NoLease
    /\ ~leases[l].renewing
    /\ now >= leases[l].deadline
    /\ leases' = [leases EXCEPT ![l] = NoLease]
    /\ last' = Idle
    /\ UNCHANGED <<heap, services, now, nextTick, cancelled, loopAlive, kv, leaseID, tasks,
                   registry, catalog, ctxDone, procVars>>

\* the store drops a lease whose TTL has run out, and the keys bound to it
LeaseExpire(l) ==
    /\ leases[l] # NoLease
    /\ ~leases[l].renewing
    /\ now >= leases[l].deadline
    /\ leases' = [leases EXCEPT ![l] = NoLease]
    /\ kv' = [k \in {x \in DOMAIN kv : kv[x].lease # l} |-> kv[k]]
    /\ last' = Idle
    /\ UNCHANGED <<heap, services, now, nextTick, cancelled, loopAlive, leaseID, tasks, registry, catalog, ctxDone, procVars>>

\* time passes: leases that are kept alive are renewed, the others run down
\* and are dropped before the clock moves past their deadline.  After Close
\* the clock goes on for as long as a lease is left to run down.
EtcdAdvance ==
    /\ IF cancelled /\ Granted # {} THEN TRUE ELSE now + Quantum <= EtcdSteps * Quantum
    /\ \A l \in Granted : leases[l].renewing \/ now < leases[l].deadline
    /\ now' = now + Quantum
    /\ leases' = [l \in 1..MaxLeases |->
                    IF leases[l] # NoLease /\ leases[l].renewing
                    THEN [leases[l] EXCEPT !.deadline = now + Quantum + LeaseTTL]
                    ELSE leases[l]]
    /\ last' = Idle
    /\ UNCHANGED <<heap, services, nextTick, cancelled, loopAlive, kv, leaseID, tasks, registry, catalog, ctxDone, procVars>>

\* time passes beyond the clock's bound for as long as a lease that is no
\* longer renewed is left to run down
EtcdRunDown ==
    /\ now + Quantum > EtcdSteps * Quantum
    /\ \E l \in Granted : ~leases[l].renewing
    /\ \A l \in Granted : leases[l].renewing \/ now < leases[l].deadline
    /\ now' = now + Quantum
    /\ leases' = [l \in 1..MaxLeases |->
                    IF leases[l] # NoLease /\ leases[l].renewing
                    THEN [leases[l] EXCEPT !.deadline = now + Quantum + LeaseTTL]
                    ELSE leases[l]]
    /\ last' = Idle
    /\ UNCHANGED <<heap, services, nextTick, cancelled, loopAlive, kv, leaseID, tasks, registry,
                   catalog, ctxDone, procVars>>

----------------------------------------------------------------------------
(* EtcdRegistry, statement by statement: goroutines, e.mutex and e.services *)

\* Register: the caller builds the struct, calls Register; e.mutex.Lock()
EtcdRegisterLock(g, p, id, name, healthy) ==
    /\ heap[p] = Nil
    /\ ~InUse(p)
    /\ Lock(g, [op |-> "Register", arg |-> p, step |-> "Grant", lease |-> 0])
    /\ heap' = [heap EXCEPT ![p] = ServiceInfo(id, name, EndpointOf(p), healthy, 0)]
    /\ UNCHANGED <<services, now, nextTick, cancelled, loopAlive, last, kv, leases, leaseID,
                   tasks, registry, catalog, ctxDone, serial>>

\* lease, err := e.client.Grant(ctx, 30); e.leaseID = lease.ID
EtcdRegisterGrant(g, outcome) ==
    LET l == leaseID + 1 IN
    /\ pc[g].op = "Register" /\ pc[g].step = "Grant"
    /\ IF outcome = "fail"
       THEN /\ pc' = [pc EXCEPT ![g].step = "Unlock"]
            /\ UNCHANGED <<leases, leaseID>>
       ELSE /\ l <= MaxLeases
            /\ leases' = [leases EXCEPT ![l] = [deadline |-> now + LeaseTTL, renewing |-> FALSE]]
            /\ leaseID' = l
            /\ pc' = [pc EXCEPT ![g].step = "Put", ![g].lease = l]
    /\ UNCHANGED <<heap, services, now, nextTick, cancelled, loopAlive, last, kv,
                   tasks, registry, catalog, ctxDone, mutex, serial>>

\* json.Marshal(service); e.client.Put(ctx, key, ..., clientv3.WithLease(lease.ID))
EtcdRegisterPut(g, outcome) ==
    LET service == heap[pc[g].arg] IN
    /\ pc[g].op = "Register" /\ pc[g].step = "Put"
    /\ IF outcome = "fail"
       THEN /\ pc' = [pc EXCEPT ![g].step = "Unlock"]
            /\ kv' = kv
       ELSE /\ kv' = MapPut(kv, Key(service.Name, service.ID), PutValue(service, pc[g].lease))
            /\ pc' = [pc EXCEPT ![g].step = "KeepAlive"]
    /\ UNCHANGED <<heap, services, now, nextTick, cancelled, loopAlive, last, leases, leaseID,
                   tasks, registry, catalog, ctxDone, mutex, serial>>

\* ch, kaerr := e.client.KeepAlive(e.ctx, lease.ID); go func() { for ka := range ch }
EtcdRegisterKeepAlive(g, outcome) ==
    /\ pc[g].op = "Register" /\ pc[g].step = "KeepAlive"
    /\ IF outcome = "fail" \/ cancelled
       THEN /\ pc' = [pc EXCEPT ![g].step = "Unlock"]
            /\ UNCHANGED <<leases, tasks>>
       ELSE /\ leases' = [leases EXCEPT ![pc[g].lease].renewing = TRUE]
            /\ tasks' = tasks \cup {pc[g].lease}
            /\ pc' = [pc EXCEPT ![g].step = "Store"]
    /\ UNCHANGED <<heap, services, now, nextTick, cancelled, loopAlive, last, kv, leaseID,
                   registry, catalog, ctxDone, mutex, serial>>

\* e.services[service.ID] = service
EtcdRegisterStore(g) ==
    /\ pc[g].op = "Register" /\ pc[g].step = "Store"
    /\ services' = MapPut(services, heap[pc[g].arg].ID, pc[g].arg)
    /\ pc' = [pc EXCEPT ![g].step = "Unlock"]
    /\ UNCHANGED <<heap, now, nextTick, cancelled, loopAlive, last, kv, leases, leaseID,
                   tasks, registry, catalog, ctxDone, mutex, serial>>

\* Deregister: e.mutex.Lock()
EtcdDeregisterLock(g, serviceID) ==
    /\ Lock(g, [op |-> "Deregister", arg |-> serviceID, step |-> "Lookup", key |-> <<>>])
    /\ UNCHANGED <<heap, services, now, nextTick, cancelled, loopAlive, last, kv, leases, leaseID,
                   tasks, registry, catalog, ctxDone, serial>>

\* service, exists := e.services[serviceID]; the key is built from service.Name
EtcdDeregisterLookup(g) ==
    /\ pc[g].op = "Deregister" /\ pc[g].step = "Lookup"
    /\ pc' = IF pc[g].arg \in DOMAIN services
             THEN [pc EXCEPT ![g].step = "Delete",
                             ![g].key = Key(heap[services[pc[g].arg]].Name, pc[g].arg)]
             ELSE [pc EXCEPT ![g].step = "Unlock"]
    /\ UNCHANGED <<heap, services, now, nextTick, cancelled, loopAlive, last, kv, leases, leaseID,
                   tasks, registry, catalog, ctxDone, mutex, serial>>

\* _, err := e.client.Delete(ctx, key)
EtcdDeregisterDelete(g, outcome) ==
    /\ pc[g].op = "Deregister" /\ pc[g].step = "Delete"
    /\ IF outcome = "fail"
       THEN /\ pc' = [pc EXCEPT ![g].step = "Unlock"]
            /\ kv' = kv
       ELSE /\ kv' = DeregisterMap(kv, pc[g].key)
            /\ pc' = [pc EXCEPT ![g].step = "Forget"]
    /\ UNCHANGED <<heap, services, now, nextTick, cancelled, loopAlive, last, leases, leaseID,
                   tasks, registry, catalog, ctxDone, mutex, serial>>

\* delete(e.services, serviceID)
EtcdDeregisterForget(g) ==
    /\ pc[g].op = "Deregister" /\ pc[g].step = "Forget"
    /\ services' = DeregisterMap(services, pc[g].arg)
    /\ pc' = [pc EXCEPT ![g].step = "Unlock"]
    /\ UNCHANGED <<heap, now, nextTick, cancelled, loopAlive, last, kv, leases, leaseID,
                   tasks, registry, catalog, ctxDone, mutex, serial>>

\* e.mutex.Unlock() (deferred): Register or Deregister returns
EtcdUnlock(g) ==
    /\ pc[g].op \in {"Register", "Deregister"} /\ pc[g].step = "Unlock"
    /\ mutex' = [mutex EXCEPT !.writer = NoStr]
    /\ pc' = [pc EXCEPT ![g] = NoCall]
    /\ UNCHANGED <<heap, services, now, nextTick, cancelled, loopAlive, last, kv, leases, leaseID,
                   tasks, registry, catalog, ctxDone, serial>>

\* HealthCheck is entered; it takes no lock
EtcdHealthCheckEnter(g, serviceID) ==
    /\ pc[g] = NoCall
    /\ pc' = [pc EXCEPT ![g] = [op |-> "HealthCheck", arg |-> serviceID, step |-> "Lookup",
                                 key |-> <<>>]]
    /\ UNCHANGED <<heap, services, now, nextTick, cancelled, loopAlive, last, kv, leases, leaseID,
                   tasks, registry, catalog, ctxDone, mutex, serial>>

\* service, exists := e.services[serviceID]
EtcdHealthCheckLookup(g) ==
    /\ pc[g].op = "HealthCheck" /\ pc[g].step = "Lookup"
    /\ pc' = IF pc[g].arg \in DOMAIN services
             THEN [pc EXCEPT ![g].step = "Get",
                             ![g].key = Key(heap[services[pc[g].arg]].Name, pc[g].arg)]
             ELSE [pc EXCEPT ![g] = NoCall]
    /\ UNCHANGED <<heap, services, now, nextTick, cancelled, loopAlive, last, kv, leases, leaseID,
                   tasks, registry, catalog, ctxDone, mutex, serial>>

\* resp, err := e.client.Get(ctx, key); HealthCheck returns
EtcdHealthCheckGet(g, outcome) ==
    /\ pc[g].op = "HealthCheck" /\ pc[g].step = "Get"
    /\ pc' = [pc EXCEPT ![g] = NoCall]
    /\ UNCHANGED <<heap, services, now, nextTick, cancelled, loopAlive, last, kv, leases, leaseID,
                   tasks, registry, catalog, ctxDone, mutex, serial>>

\* Discover takes no lock and touches neither e.services nor the store's keys
EtcdConcDiscover(g, serviceName, get) ==
    /\ pc[g] = NoCall
    /\ UNCHANGED vars

\* the goroutines whose next statement writes e.services
MapWriters ==
    {g \in Goroutines : pc[g] # NoCall /\ pc[g].step \in {"Store", "Forget"}}

\* the goroutines whose next statement reads e.services
MapReaders ==
    {g \in Goroutines : pc[g] # NoCall /\ pc[g].step = "Lookup"}

----------------------------------------------------------------------------
(* NewMemoryRegistry called more than once in one process *)

\* the variables that hold the registries returned by NewRegistry("memory", ...)
Handles == {"r1", "r2"}

\* the struct the holder of a registry builds and registers through it
PtrOf(h) == IF h = "r1" THEN "p1" ELSE "p2"

\* memoryRegistryOnce not yet done, no registry returned, no call being made
NoMemoryRegistry == [kind |-> "memory", once |-> FALSE, handles |-> {}, caller |-> NoStr]

\* NewMemoryRegistry(), its result assigned to h: memoryRegistryOnce.Do builds
\* the instance and starts its loop the first time only; every call returns
\* memoryRegistryInstance
NewMemoryRegistry(h) ==
    /\ h \notin registry.handles
    /\ registry' = [registry EXCEPT !.once = TRUE, !.handles = @ \cup {h}]
    /\ IF registry.once
       THEN UNCHANGED <<services, cancelled, loopAlive, nextTick>>
       ELSE /\ services' = <<>>
            /\ cancelled' = FALSE
            /\ loopAlive' = TRUE
            /\ nextTick' = now + TickerPeriod
    /\ last' = Call("NewRegistry", h, NoStr, {})
    /\ UNCHANGED <<heap, now, kv, leases, leaseID, tasks, catalog, ctxDone, procVars>>

\* the holder of h makes the calls that follow, through h
Use(h) ==
    /\ h \in registry.handles
    /\ registry.caller # h
    /\ registry' = [registry EXCEPT !.caller = h]
    /\ last' = Idle
    /\ UNCHANGED <<heap, services, now, nextTick, cancelled, loopAlive, kv, leases, leaseID, tasks,
                   catalog, ctxDone, procVars>>

\* a call is made through a registry that was returned
Called == registry.caller # NoStr

\* m.ctx of the instance h points to is done
InstanceDone(h) == h \in registry.handles /\ cancelled

----------------------------------------------------------------------------
(* ConsulRegistry and the agent's catalog *)

\* what the agent keeps for a registration: the service and the status of its
\* HTTP check, critical until the first probe passes
Registration(service) ==
    [Name |-> service.Name, Address |-> service.Address, Port |-> service.Port,
     passing |-> FALSE]

\* ConsulRegistry.Register(ctx, service): ctx is not passed to the agent call
ConsulRegister(service, outcome) ==
    /\ catalog' = IF outcome = "fail" THEN catalog
                  ELSE MapPut(catalog, service.ID, Registration(service))
    /\ last' = IF outcome = "fail"
               THEN CallErr("Register", service.ID, NoStr, {}, "consul request failed")
               ELSE Call("Register", service.ID, NoStr, {})
    /\ UNCHANGED <<heap, services, now, nextTick, cancelled, loopAlive, kv, leases, leaseID, tasks,
                   registry, ctxDone, procVars>>

\* ConsulRegistry.Deregister(ctx, serviceID): ctx is not passed to the agent call
ConsulDeregister(serviceID, outcome) ==
    /\ catalog' = IF outcome = "fail" THEN catalog ELSE MapDel(catalog, serviceID)
    /\ last' = IF outcome = "fail"
               THEN CallErr("Deregister", serviceID, NoStr, {}, "consul request failed")
               ELSE Call("Deregister", serviceID, NoStr, {})
    /\ UNCHANGED <<heap, services, now, nextTick, cancelled, loopAlive, kv, leases, leaseID, tasks,
                   registry, ctxDone, procVars>>

\* the structs Discover builds from Health().Service(serviceName, "", true, nil):
\* the entries of that name whose checks pass; every entry carries its checks
ConsulDiscoverResult(serviceName) ==
    {[ID |-> id, Name |-> catalog[id].Name, Address |-> catalog[id].Address,
      Port |-> catalog[id].Port, Healthy |-> TRUE, LastSeen |-> ZeroTime] :
        id \in {x \in DOMAIN catalog : catalog[x].Name = serviceName /\ catalog[x].passing}}

\* ConsulRegistry.Discover(ctx, serviceName)
ConsulDiscover(serviceName, outcome) ==
    /\ last' = IF outcome = "fail"
               THEN CallErr("Discover", serviceName, NoStr, {}, "consul request failed")
               ELSE Call("Discover", serviceName, NoStr, ConsulDiscoverResult(serviceName))
    /\ UNCHANGED <<heap, services, now, nextTick, cancelled, loopAlive, kv, leases, leaseID, tasks,
                   registry, catalog, ctxDone, procVars>>

\* ConsulRegistry.HealthCheck(ctx, serviceID): return nil
ConsulHealthCheck(serviceID) ==
    /\ last' = Call("HealthCheck", serviceID, NoStr, {})
    /\ UNCHANGED <<heap, services, now, nextTick, cancelled, loopAlive, kv, leases, leaseID, tasks,
                   registry, catalog, ctxDone, procVars>>

\* ConsulRegistry.Close(): return nil
ConsulClose ==
    /\ last' = Call("Close", NoStr, NoStr, {})
    /\ UNCHANGED <<heap, services, now, nextTick, cancelled, loopAlive, kv, leases, leaseID, tasks,
                   registry, catalog, ctxDone, procVars>>

\* the agent probes http://address:port/health every 10s
ConsulCheck(serviceID, passing) ==
    /\ serviceID \in DOMAIN catalog
    /\ catalog[serviceID].passing # passing
    /\ catalog' = [catalog EXCEPT ![serviceID].passing = passing]
    /\ last' = Idle
    /\ UNCHANGED <<heap, services, now, nextTick, cancelled, loopAlive, kv, leases, leaseID, tasks,
                   registry, ctxDone, procVars>>

\* DeregisterCriticalServiceAfter: the agent drops a service whose check has
\* been critical for 30s
ConsulReap(serviceID) ==
    /\ serviceID \in DOMAIN catalog
    /\ ~catalog[serviceID].passing
    /\ catalog' = MapDel(catalog, serviceID)
    /\ last' = Idle
    /\ UNCHANGED <<heap, services, now, nextTick, cancelled, loopAlive, kv, leases, leaseID, tasks,
                   registry, ctxDone, procVars>>

----------------------------------------------------------------------------
(* The factory *)

\* strings the factory looks into are sequences of characters
UpperCase == <<"A", "B", "C", "D", "E", "F", "G", "H", "I", "J", "K", "L", "M",
               "N", "O", "P", "Q", "R", "S", "T", "U", "V", "W", "X", "Y", "Z">>
LowerCase == <<"a", "b", "c", "d", "e", "f", "g", "h", "i", "j", "k", "l", "m",
               "n", "o", "p", "q", "r", "s", "t", "u", "v", "w", "x", "y", "z">>

\* strings.ToLower left out
ToLower_Identity(str) == str

\* strings.ToLower(str)
ToLower(str) ==
    [i \in 1..Len(str) |->
        IF \E j \in 1..Len(UpperCase) : UpperCase[j] = str[i]
        THEN LowerCase[CHOOSE j \in 1..Len(UpperCase) : UpperCase[j] = str[i]]
        ELSE str[i]]

\* the case labels of NewRegistry's switch
EtcdType == <<"e", "t", "c", "d">>
ConsulType == <<"c", "o", "n", "s", "u", "l">>

\* registryType arguments
Types == {EtcdType, <<"E", "T", "C", "D">>, <<"E", "t", "c", "d">>,
          ConsulType, <<"C", "o", "n", "s", "u", "l">>,
          <<"m", "e", "m", "o", "r", "y">>, <<>>, <<"e", "t", "c", "d", " ">>}

\* address arguments: host:port tokens and the commas between them
Addresses == {<<>>, <<"localhost:2379">>, <<"etcd-1:2379", ",", "etcd-2:2379">>,
              <<"localhost:8500">>}

\* strings.Split(address, ",")
RECURSIVE SplitFrom(_, _)
SplitFrom(a, cur) ==
    IF a = <<>> THEN <<cur>>
    ELSE IF Head(a) = "," THEN <<cur>> \o SplitFrom(Tail(a), "")
    ELSE SplitFrom(Tail(a), Head(a))
Split(address) == SplitFrom(address, "")

\* NewEtcdRegistry(endpoints): clientv3.New is the only call that can fail; it
\* is given no blocking dial option and sends no request to the store
NewEtcdRegistry(endpoints, newClient) ==
    LET eps == IF Len(endpoints) = 0 THEN <<"localhost:2379">> ELSE endpoints IN
    IF newClient = "fail"
    THEN [reg |-> "nil", err |-> "failed to create etcd client", endpoints |-> eps]
    ELSE [reg |-> "etcd", err |-> NoErr, endpoints |-> eps]

\* NewConsulRegistry without the Status().Leader() probe
NewConsulRegistry_NoProbe(address, newClient, leader) ==
    IF newClient = "fail"
    THEN [reg |-> "nil", err |-> "failed to create consul client"]
    ELSE [reg |-> "consul", err |-> NoErr]

\* NewConsulRegistry(address)
NewConsulRegistry(address, newClient, leader) ==
    IF newClient = "fail"
    THEN [reg |-> "nil", err |-> "failed to create consul client"]
    ELSE IF leader = "fail"
    THEN [reg |-> "nil", err |-> "consul connection failed"]
    ELSE [reg |-> "consul", err |-> NoErr]

\* the backend NewRegistry(registryType, address) returns
NewRegistryKind(registryType, address, newClient, leader) ==
    LET t == ToLower(registryType) IN
    IF t = EtcdType
    THEN LET endpoints == IF address # <<>> THEN Split(address) ELSE <<>>
             r == NewEtcdRegistry(endpoints, newClient)
         IN  IF r.err # NoErr THEN "memory" ELSE r.reg
    ELSE IF t = ConsulType
    THEN LET r == NewConsulRegistry(address, newClient, leader)
         IN  IF r.err # NoErr THEN "memory" ELSE r.reg
    ELSE "memory"

\* NewRegistry(registryType, address) in an environment where the service at
\* the address is reachable or not, the client library accepts the
\* configuration or not, and the leader query succeeds or not (never without
\* a reachable agent).  The in-memory backend starts its sweep.
NewRegistry(registryType, address, reachable, newClient, leader) ==
    LET kind == NewRegistryKind(registryType, address, newClient, leader) IN
    /\ registry = NoRegistry
    /\ leader = "ok" => reachable
    /\ registry' = [kind |-> kind, type |-> registryType, address |-> address,
                    reachable |-> reachable, newClient |-> newClient, leader |-> leader]
    /\ loopAlive' = (kind = "memory")
    /\ nextTick' = IF kind = "memory" THEN now + TickerPeriod ELSE nextTick
    /\ last' = Call("NewRegistry", NoStr, NoStr, {})
    /\ UNCHANGED <<heap, services, now, cancelled, kv, leases, leaseID, tasks, catalog, ctxDone,
                   procVars>>

----------------------------------------------------------------------------

\* NewMemoryRegistry: empty map, live context, ticker armed, loop started; the
\* store of the lease-store backend plays no part
Init ==
    /\ heap = [p \in Ptrs |-> Nil]
    /\ services = <<>>
    /\ now = 0
    /\ nextTick = TickerPeriod
    /\ cancelled = FALSE
    /\ loopAlive = TRUE
    /\ last = Idle
    /\ kv = <<>>
    /\ leases = [l \in 1..MaxLeases |-> NoLease]
    /\ leaseID = 0
    /\ tasks = {}
    /\ registry = NoRegistry
    /\ pc = [g \in Goroutines \cup {Sweeper} |-> NoCall]
    /\ mutex = FreeMutex
    /\ serial = [services |-> services, heap |-> heap]
    /\ catalog = <<>>
    /\ ctxDone = FALSE

Next ==
    \/ \E p \in Ptrs, id \in IDs, name \in Names, healthy \in BOOLEAN, lastSeen \in {0, now} :
          RegisterNew(p, id, name, healthy, lastSeen)
    \/ \E p \in Ptrs, id \in IDs : CallerWrite(p, "ID", id)
    \/ \E p \in Ptrs, name \in Names : CallerWrite(p, "Name", name)
    \/ \E p \in Ptrs, healthy \in BOOLEAN : CallerWrite(p, "Healthy", healthy)
    \/ \E p \in Ptrs : Collect(p)
    \/ \E p \in Ptrs : Register(p)
    \/ \E id \in IDs : Deregister(id)
    \/ \E name \in Names : Discover(name)
    \/ \E id \in IDs : HealthCheck(id)
    \/ Sweep
    \/ Advance(MaxSteps)

\* every call of the backend, callers that write to the structs they hold
Spec == Init /\ [][Next]_vars

\* instances of one service over a longer time: the sweep and the heartbeats
NextAging ==
    \/ \E p \in Ptrs, id \in IDs, healthy \in BOOLEAN, lastSeen \in {0, now} :
          RegisterNew(p, id, AgingName, healthy, lastSeen)
    \/ \E p \in Ptrs, healthy \in BOOLEAN : CallerWrite(p, "Healthy", healthy)
    \/ \E p \in Ptrs : Collect(p)
    \/ \E p \in Ptrs : Register(p)
    \/ \E id \in IDs : Deregister(id)
    \/ Discover(AgingName)
    \/ \E id \in IDs : HealthCheck(id)
    \/ Sweep
    \/ Advance(AgingSteps)

SpecAging == Init /\ [][NextAging]_vars

\* the in-memory backend from construction to Close and after: when the
\* context is done and a tick is due at once, select takes either case
NextClose ==
    \/ \E p \in Ptrs, id \in IDs, healthy \in BOOLEAN :
          RegisterNew(p, id, AgingName, healthy, 0)
    \/ \E p \in Ptrs : Collect(p)
    \/ \E p \in Ptrs : Register(p)
    \/ \E id \in IDs : Deregister(id)
    \/ Discover(AgingName)
    \/ \E id \in IDs : HealthCheck(id)
    \/ Sweep
    \/ Advance(AgingSteps)
    \/ Close
    \/ LoopExit

\* the Go scheduler runs the loop's goroutine: with the context done, the
\* select returns
SpecClose == Init /\ [][NextClose]_vars /\ WF_vars(LoopExit)

\* the in-memory backend with owners that heartbeat in time, at any phase of
\* the ticks
NextBeat ==
    \/ \E p \in Ptrs, id \in IDs : RegisterNew(p, id, AgingName, TRUE, 0)
    \/ \E p \in Ptrs : Collect(p)
    \/ \E p \in Ptrs : Register(p)
    \/ \E id \in IDs : Deregister(id)
    \/ Discover(AgingName)
    \/ \E id \in IDs : HealthCheck(id)
    \/ Sweep
    \/ BeatAdvance

SpecBeat == Init /\ [][NextBeat]_vars

\* the in-memory backend with calls waiting for the lock, a sweep in progress
\* and Close called at any point
NextConcClose ==
    \/ \E g \in Goroutines, p \in Ptrs, id \in IDs : RegisterBegin(g, p, id, AgingName, FALSE)
    \/ \E g \in Goroutines, id \in IDs : DeregisterBegin(g, id)
    \/ \E g \in Goroutines, id \in IDs : HealthCheckBegin(g, id)
    \/ \E g \in Goroutines : DiscoverBegin(g, AgingName)
    \/ SweepBegin
    \/ \E g \in Goroutines \cup {Sweeper} : Acquire(g)
    \/ \E g \in Goroutines : RAcquire(g)
    \/ \E g \in Goroutines : RegisterSetHealthy(g)
    \/ \E g \in Goroutines : RegisterSetLastSeen(g)
    \/ \E g \in Goroutines : RegisterStore(g)
    \/ \E g \in Goroutines : DeregisterDelete(g)
    \/ \E g \in Goroutines : HealthCheckSetLastSeen(g)
    \/ \E g \in Goroutines : HealthCheckSetHealthy(g)
    \/ \E g \in Goroutines, id \in IDs : DiscoverVisit(g, id)
    \/ \E g \in Goroutines : DiscoverRUnlock(g)
    \/ \E id \in IDs : SweepVisit(id)
    \/ SweepDone
    \/ \E g \in Goroutines \cup {Sweeper} : Unlock(g)
    \/ \E p \in Ptrs : ConcCollect(p)
    \/ ConcAdvance(CloseSteps)
    \/ Close
    \/ ConcLoopExit

SpecConcClose == Init /\ [][NextConcClose]_vars

\* NewEtcdRegistry: the client connected, the bookkeeping empty, e.ctx live;
\* the store is empty and has granted no lease.  This backend runs no sweep.
InitEtcd ==
    /\ heap = [p \in Ptrs |-> Nil]
    /\ services = <<>>
    /\ now = 0
    /\ nextTick = 0
    /\ cancelled = FALSE
    /\ loopAlive = FALSE
    /\ last = Idle
    /\ kv = <<>>
    /\ leases = [l \in 1..MaxLeases |-> NoLease]
    /\ leaseID = 0
    /\ tasks = {}
    /\ registry = NoRegistry
    /\ pc = [g \in Goroutines \cup {Sweeper} |-> NoCall]
    /\ mutex = FreeMutex
    /\ serial = [services |-> services, heap |-> heap]
    /\ catalog = <<>>
    /\ ctxDone = FALSE

NextEtcd ==
    \/ \E p \in Ptrs, id \in IDs, name \in Names, healthy \in BOOLEAN, fault \in RegisterFaults :
          EtcdRegisterNew(p, id, name, healthy, fault)
    \/ \E p \in Ptrs, fault \in RegisterFaults : EtcdRegister(p, fault)
    \/ \E p \in Ptrs : Collect(p)
    \/ \E id \in IDs, delete \in Outcomes : EtcdDeregister(id, delete)
    \/ \E name \in Names, get \in Outcomes : EtcdDiscover(name, get)
    \/ \E id \in IDs, get \in Outcomes : EtcdHealthCheck(id, get)
    \/ EtcdClose
    \/ \E l \in 1..MaxLeases : KeepAliveExit(l)
    \/ \E l \in 1..MaxLeases : LeaseExpire(l)
    \/ EtcdAdvance

\* the lease-store backend, its store and its callers
SpecEtcd == InitEtcd /\ [][NextEtcd]_vars

\* the lease-store backend with service names that hold a '/'
NextEtcdSlash ==
    \/ \E p \in Ptrs, id \in IDs, name \in SlashNames, fault \in RegisterFaults :
          EtcdRegisterNew(p, id, name, FALSE, fault)
    \/ \E p \in Ptrs : Collect(p)
    \/ \E id \in IDs, delete \in Outcomes : EtcdDeregister(id, delete)
    \/ \E name \in SlashNames, get \in Outcomes : EtcdDiscover(name, get)

SpecEtcdSlash == InitEtcd /\ [][NextEtcdSlash]_vars

\* the lease-store backend whose renewal streams may end while it is in use
NextEtcdPartition ==
    \/ \E p \in Ptrs, id \in IDs, fault \in RegisterFaults :
          EtcdRegisterNew(p, id, AgingName, FALSE, fault)
    \/ \E p \in Ptrs : Collect(p)
    \/ \E id \in IDs, delete \in Outcomes : EtcdDeregister(id, delete)
    \/ EtcdDiscover(AgingName, "ok")
    \/ \E id \in IDs, get \in Outcomes : EtcdHealthCheck(id, get)
    \/ \E l \in 1..MaxLeases : KeepAliveLost(l)
    \/ \E l \in 1..MaxLeases : KeepAliveExit(l)
    \/ \E l \in 1..MaxLeases : LeaseExpire(l)
    \/ EtcdAdvance
    \/ EtcdRunDown

\* the goroutine draining a closed channel returns, the store drops a lease
\* that has run out, and time passes
SpecEtcdPartition ==
    /\ InitEtcd /\ [][NextEtcdPartition]_vars
    /\ WF_vars(\E l \in 1..MaxLeases : KeepAliveExit(l))
    /\ WF_vars(\E l \in 1..MaxLeases : LeaseExpire(l))
    /\ WF_vars(EtcdAdvance)
    /\ WF_vars(EtcdRunDown)

\* no registry has been built yet
InitTwo ==
    /\ heap = [p \in Ptrs |-> Nil]
    /\ services = <<>>
    /\ now = 0
    /\ nextTick = 0
    /\ cancelled = FALSE
    /\ loopAlive = FALSE
    /\ last = Idle
    /\ kv = <<>>
    /\ leases = [l \in 1..MaxLeases |-> NoLease]
    /\ leaseID = 0
    /\ tasks = {}
    /\ registry = NoMemoryRegistry
    /\ pc = [g \in Goroutines \cup {Sweeper} |-> NoCall]
    /\ mutex = FreeMutex
    /\ serial = [services |-> services, heap |-> heap]
    /\ catalog = <<>>
    /\ ctxDone = FALSE

\* two holders of registries returned by separate NewRegistry("memory", ...)
\* calls, each registering its own struct
NextTwo ==
    \/ \E h \in Handles : NewMemoryRegistry(h)
    \/ \E h \in Handles : Use(h)
    \/ \E id \in IDs : Called /\ RegisterNew(PtrOf(registry.caller), id, AgingName, TRUE, 0)
    \/ Called /\ Register(PtrOf(registry.caller))
    \/ \E id \in IDs : Called /\ Deregister(id)
    \/ Called /\ Discover(AgingName)
    \/ \E id \in IDs : Called /\ HealthCheck(id)
    \/ Called /\ Close
    \/ \E p \in Ptrs : Collect(p)
    \/ Sweep
    \/ LoopExit
    \/ Advance(MaxSteps)

SpecTwo == InitTwo /\ [][NextTwo]_vars

\* a backend that does network I/O has been constructed: &EtcdRegistry{...} or
\* &ConsulRegistry{...}
InitRemote ==
    /\ heap = [p \in Ptrs |-> Nil]
    /\ services = <<>>
    /\ now = 0
    /\ nextTick = 0
    /\ cancelled = FALSE
    /\ loopAlive = FALSE
    /\ last = Idle
    /\ kv = <<>>
    /\ leases = [l \in 1..MaxLeases |-> NoLease]
    /\ leaseID = 0
    /\ tasks = {}
    /\ registry \in {[kind |-> "etcd"], [kind |-> "consul"]}
    /\ pc = [g \in Goroutines \cup {Sweeper} |-> NoCall]
    /\ mutex = FreeMutex
    /\ serial = [services |-> services, heap |-> heap]
    /\ catalog = <<>>
    /\ ctxDone = FALSE

\* the backend that was constructed
IsEtcd == registry.kind = "etcd"
IsConsul == registry.kind = "consul"

\* the calls on the lease-store backend, the other clients of its store and
\* the store's lease expiry
NextRemoteEtcd ==
    \/ \E p \in Ptrs, id \in IDs, fault \in RegisterFaults :
          IsEtcd /\ EtcdRegisterNew(p, id, AgingName, FALSE, fault)
    \/ \E p \in Ptrs, fault \in RegisterFaults : IsEtcd /\ EtcdRegister(p, fault)
    \/ \E p \in Ptrs : IsEtcd /\ Collect(p)
    \/ \E id \in IDs, delete \in Outcomes : IsEtcd /\ EtcdDeregister(id, delete)
    \/ \E name \in Names, get \in Outcomes : IsEtcd /\ EtcdDiscover(name, get)
    \/ \E id \in IDs, get \in Outcomes : IsEtcd /\ EtcdHealthCheck(id, get)
    \/ \E id \in IDs : \E v \in ForeignValues(AgingName, id) :
          IsEtcd /\ ForeignPut(AgingName, id, v)
    \/ \E id \in IDs : IsEtcd /\ ForeignDelete(AgingName, id)
    \/ \E l \in 1..MaxLeases : IsEtcd /\ LeaseExpire(l)
    \/ IsEtcd /\ EtcdAdvance

\* the calls on the coordination-service backend and the agent's own steps
NextRemoteConsul ==
    \/ \E id \in IDs, name \in Names, outcome \in Outcomes :
          IsConsul /\ ConsulRegister(ServiceInfo(id, name, EndpointOf("p1"), FALSE, 0), outcome)
    \/ \E id \in IDs, outcome \in Outcomes : IsConsul /\ ConsulDeregister(id, outcome)
    \/ \E name \in Names, outcome \in Outcomes : IsConsul /\ ConsulDiscover(name, outcome)
    \/ \E id \in IDs : IsConsul /\ ConsulHealthCheck(id)
    \/ IsConsul /\ ConsulClose
    \/ \E id \in IDs, passing \in BOOLEAN : IsConsul /\ ConsulCheck(id, passing)
    \/ \E id \in IDs : IsConsul /\ ConsulReap(id)

NextRemote ==
    \/ NextRemoteEtcd
    \/ NextRemoteConsul
    \/ CtxCancel

\* the two backends that do network I/O, each with its callers, whose context
\* may be cancelled at any point
SpecRemote == InitRemote /\ [][NextRemote]_vars

\* the in-memory backend under concurrent callers, statement by statement
NextConc ==
    \/ \E g \in Goroutines, p \in Ptrs, id \in IDs, name \in Names, healthy \in BOOLEAN :
          RegisterLock(g, p, id, name, healthy)
    \/ \E g \in Goroutines : RegisterSetHealthy(g)
    \/ \E g \in Goroutines : RegisterSetLastSeen(g)
    \/ \E g \in Goroutines : RegisterStore(g)
    \/ \E g \in Goroutines, id \in IDs : DeregisterLock(g, id)
    \/ \E g \in Goroutines : DeregisterDelete(g)
    \/ \E g \in Goroutines, id \in IDs : HealthCheckLock(g, id)
    \/ \E g \in Goroutines : HealthCheckSetLastSeen(g)
    \/ \E g \in Goroutines : HealthCheckSetHealthy(g)
    \/ \E g \in Goroutines, name \in Names : DiscoverRLock(g, name)
    \/ \E g \in Goroutines, id \in IDs : DiscoverVisit(g, id)
    \/ \E g \in Goroutines : DiscoverRUnlock(g)
    \/ SweepLock
    \/ \E id \in IDs : SweepVisit(id)
    \/ SweepDone
    \/ \E g \in Goroutines \cup {Sweeper} : Unlock(g)
    \/ \E p \in Ptrs : ConcCollect(p)
    \/ ConcAdvance(MaxSteps)

SpecConc == Init /\ [][NextConc]_vars

\* the lease-store backend under concurrent callers, statement by statement
NextEtcdConc ==
    \/ \E g \in Goroutines, p \in Ptrs, id \in IDs, name \in Names :
          EtcdRegisterLock(g, p, id, name, FALSE)
    \/ \E g \in Goroutines, outcome \in Outcomes : EtcdRegisterGrant(g, outcome)
    \/ \E g \in Goroutines, outcome \in Outcomes : EtcdRegisterPut(g, outcome)
    \/ \E g \in Goroutines, outcome \in Outcomes : EtcdRegisterKeepAlive(g, outcome)
    \/ \E g \in Goroutines : EtcdRegisterStore(g)
    \/ \E g \in Goroutines, id \in IDs : EtcdDeregisterLock(g, id)
    \/ \E g \in Goroutines : EtcdDeregisterLookup(g)
    \/ \E g \in Goroutines, outcome \in Outcomes : EtcdDeregisterDelete(g, outcome)
    \/ \E g \in Goroutines : EtcdDeregisterForget(g)
    \/ \E g \in Goroutines : EtcdUnlock(g)
    \/ \E g \in Goroutines, id \in IDs : EtcdHealthCheckEnter(g, id)
    \/ \E g \in Goroutines : EtcdHealthCheckLookup(g)
    \/ \E g \in Goroutines, outcome \in Outcomes : EtcdHealthCheckGet(g, outcome)
    \/ \E g \in Goroutines, name \in Names, get \in Outcomes : EtcdConcDiscover(g, name, get)
    \/ \E p \in Ptrs : ConcCollect(p)

SpecEtcdConc == InitEtcd /\ [][NextEtcdConc]_vars

\* before NewRegistry is called: no backend, no sweep
InitFactory ==
    /\ heap = [p \in Ptrs |-> Nil]
    /\ services = <<>>
    /\ now = 0
    /\ nextTick = 0
    /\ cancelled = FALSE
    /\ loopAlive = FALSE
    /\ last = Idle
    /\ kv = <<>>
    /\ leases = [l \in 1..MaxLeases |-> NoLease]
    /\ leaseID = 0
    /\ tasks = {}
    /\ registry = NoRegistry
    /\ pc = [g \in Goroutines \cup {Sweeper} |-> NoCall]
    /\ mutex = FreeMutex
    /\ serial = [services |-> services, heap |-> heap]
    /\ catalog = <<>>
    /\ ctxDone = FALSE

\* the factory, then Register and Discover on the backend it returned; a store
\* that is not reachable fails every request sent to it
NextFactory ==
    \/ \E registryType \in Types, address \in Addresses, reachable \in BOOLEAN,
          newClient \in Outcomes, leader \in Outcomes :
          NewRegistry(registryType, address, reachable, newClient, leader)
    \/ /\ registry.kind = "memory"
       /\ \E p \in Ptrs, id \in IDs, name \in Names, healthy \in BOOLEAN :
             RegisterNew(p, id, name, healthy, 0)
    \/ /\ registry.kind = "memory"
       /\ \E name \in Names : Discover(name)
    \/ /\ registry.kind = "etcd"
       /\ \E p \in Ptrs, id \in IDs, name \in Names, healthy \in BOOLEAN, fault \in RegisterFaults :
             /\ ~registry.reachable => fault = "grant"
             /\ EtcdRegisterNew(p, id, name, healthy, fault)
    \/ /\ registry.kind = "etcd"
       /\ \E name \in Names, get \in Outcomes :
             /\ ~registry.reachable => get = "fail"
             /\ EtcdDiscover(name, get)

SpecFactory == InitFactory /\ [][NextFactory]_vars

\* the same, with the Go scheduler running a keep-alive goroutine whose
\* channel is closed: the goroutine is runnable and returns;
\* time passes and the store drops the leases that have run out
NextEtcdLive ==
    \/ \E p \in Ptrs, id \in IDs, name \in Names, fault \in RegisterFaults :
          EtcdRegisterNew(p, id, name, FALSE, fault)
    \/ \E p \in Ptrs, fault \in RegisterFaults : EtcdRegister(p, fault)
    \/ \E p \in Ptrs : Collect(p)
    \/ \E id \in IDs, delete \in Outcomes : EtcdDeregister(id, delete)
    \/ \E name \in Names : EtcdDiscover(name, "ok")
    \/ EtcdClose
    \/ \E l \in 1..MaxLeases : KeepAliveExit(l)
    \/ \E l \in 1..MaxLeases : LeaseExpire(l)
    \/ EtcdAdvance

SpecEtcdLive ==
    /\ InitEtcd /\ [][NextEtcdLive]_vars
    /\ WF_vars(\E l \in 1..MaxLeases : KeepAliveExit(l))
    /\ WF_vars(\E l \in 1..MaxLeases : LeaseExpire(l))
    /\ WF_vars(EtcdAdvance)

----------------------------------------------------------------------------
(* In-memory backend: properties *)

\* the records a Discover(name) made now would hand to its caller
View(name) == {heap[p] : p \in DiscoverResult(name)}

\* the map entries whose record carries this ID
EntriesWithID(id) == {k \in DOMAIN services : heap[services[k]].ID = id}

\* C1: once Register(svc) has returned, Discover(svc.Name) contains an entry
\* with ID = svc.ID and Healthy = true, whatever Healthy and LastSeen the
\* caller put in the struct.
C1_RegisterThenDiscover ==
    last.op = "Register" =>
        \E r \in View(heap[last.arg].Name) : r.ID = heap[last.arg].ID /\ r.Healthy

\* a Register has returned for an ID the map held as unhealthy, next to another record
C1_Witness ==
    /\ last.op = "Register"
    /\ last.prev = "unhealthy"
    /\ Cardinality(DOMAIN services) = 2

\* C3: after Deregister(id) of a registered id no Discover returns a record
\* with that ID, and every other entry of the map (key and record) is as it
\* was before the call.
C3_DeregisterRemovesOnlyThatID ==
    [][(last'.op = "Deregister" /\ last'.prev # "absent") =>
          /\ \A name \in Names : \A r \in View(name)' : r.ID # last'.arg
          /\ DOMAIN services' = DOMAIN services \ {last'.arg}
          /\ \A k \in DOMAIN services' :
                services'[k] = services[k] /\ heap'[services[k]] = heap[services[k]]
      ]_vars

\* C5: a record registered at time T with no further Register or HealthCheck
\* (so its LastSeen is T) is not returned by a Discover made at T+61s or later.
C5_NotDiscoveredAfter61s ==
    last.op = "Discover" =>
        \A p \in last.result : now - heap[p].LastSeen <= UnhealthyAfter

\* C6: a record registered at time T with no further Register or HealthCheck
\* is absent from the map at T+121s and later.
C6_AbsentAfter121s ==
    \A k \in DOMAIN services : now - heap[services[k]].LastSeen <= RemoveAfter

\* C7: Discover(name) returns exactly the records of the map with Name = name
\* and Healthy = true, returns a nil error and changes nothing.
C7_DiscoverExact ==
    [][last'.op = "Discover" =>
          /\ last'.result =
                {services[k] : k \in {x \in DOMAIN services :
                    /\ heap[services[x]].Name = last'.arg
                    /\ heap[services[x]].Healthy = TRUE}}
          /\ last'.err = NoErr
          /\ services' = services
          /\ heap' = heap
      ]_vars

\* a Discover returned one record while the map holds also an unhealthy record
\* of the same name, which it left out
C7_Witness ==
    /\ last.op = "Discover"
    /\ Cardinality(last.result) = 1
    /\ \E k \in DOMAIN services :
          heap[services[k]].Name = last.arg /\ ~heap[services[k]].Healthy

\* C8: what Discover returns are copies: a caller writing to a struct it got
\* from Discover, or to the struct it passed to Register, does not change what
\* later Discover calls return.
C8_CallerWritesDoNotShow ==
    [][last'.op = "Write" => \A name \in Names : View(name)' = View(name)]_vars

\* C9: Register or HealthCheck on an ID the map holds sets LastSeen to now and
\* Healthy to true, so the record is discoverable again, and the sweep leaves a
\* record alone as long as no more than 60s have passed since that call.
C9_HeartbeatRevives ==
    [][/\ (last'.op = "HealthCheck" /\ last'.prev # "absent") =>
            LET p == services[last'.arg] IN
            /\ heap'[p].LastSeen = now
            /\ heap'[p].Healthy
            /\ \A name \in Names : heap'[p].Name = name => heap'[p] \in View(name)'
       /\ (last'.op = "Register" /\ last'.prev # "absent") =>
            LET p == last'.arg IN
            /\ heap'[p].LastSeen = now
            /\ heap'[p].Healthy
            /\ \A name \in Names : heap'[p].Name = name => heap'[p] \in View(name)'
       /\ last'.op = "Sweep" =>
            \A k \in DOMAIN services :
                now - heap[services[k]].LastSeen <= UnhealthyAfter =>
                    /\ k \in DOMAIN services'
                    /\ heap'[services[k]] = heap[services[k]]
      ]_vars

\* a HealthCheck has returned for a record the sweep had marked unhealthy, and
\* the record is discoverable
C9_Witness ==
    /\ last.op = "HealthCheck"
    /\ last.prev = "unhealthy"
    /\ now >= UnhealthyAfter + TickerPeriod
    /\ services[last.arg] \in DiscoverResult(heap[services[last.arg]].Name)

\* C10: registering an ID the map already holds returns no error, leaves one
\* record with that ID, stored under that ID with the Name of the latest
\* call, so that no Discover for another name returns the ID.
C10_RegisterUpserts ==
    (last.op = "Register" /\ last.prev # "absent") =>
        LET p == last.arg
            id == heap[p].ID
        IN  /\ last.err = NoErr
            /\ id \in DOMAIN services
            /\ services[id] = p
            /\ EntriesWithID(id) = {id}
            /\ \A name \in Names \ {heap[p].Name} : \A r \in View(name) : r.ID # id

\* C12: Deregister of an ID the map does not hold returns nil and leaves the
\* map and every record unchanged, also when it is repeated.
C12_DeregisterAbsentNoOp ==
    [][(last'.op = "Deregister" /\ last'.prev = "absent") =>
          /\ last'.err = NoErr
          /\ services' = services
          /\ heap' = heap
      ]_vars

\* a Deregister has returned for an ID the map did not hold while the map
\* holds another record
C12_Witness ==
    /\ last.op = "Deregister"
    /\ last.prev = "absent"
    /\ last.arg \notin DOMAIN services
    /\ services # <<>>

\* C17: under any interleaving of concurrent Register, Deregister, Discover,
\* HealthCheck and the sweep, each call takes effect atomically: whenever no
\* writer holds the lock the map and its records are what the completed calls
\* give when applied one after the other in the order they completed, and
\* what a Discover returns is what that serial state gives for its name.
C17_Serializable ==
    /\ mutex.writer # NoStr => mutex.readers = {}
    /\ mutex.writer = NoStr =>
          /\ services = serial.services
          /\ \A p \in Stored : heap[p] = serial.heap[p]
    /\ \A g \in Goroutines :
          (pc[g].op = "Discover" /\ pc[g].todo = {}) =>
              pc[g].result = {p \in Range(serial.services) :
                                serial.heap[p].Name = pc[g].arg /\ serial.heap[p].Healthy}

\* a Discover has finished its range and holds a record while the other caller
\* waits in no call and the sweep has already marked a record unhealthy
C17_Witness ==
    /\ \E g \in Goroutines :
          pc[g].op = "Discover" /\ pc[g].todo = {} /\ pc[g].result # {}
    /\ \E p \in Stored : ~heap[p].Healthy /\ now - heap[p].LastSeen > UnhealthyAfter
    /\ Cardinality(DOMAIN services) = 2

\* C22: the sweep is armed every 30s from construction until Close; once Close
\* was called the loop eventually returns, and from then on there is no sweep
\* pass: a record leaves the map only by Deregister and no record of the map
\* is marked unhealthy.
C22_SweepStopsAfterClose ==
    /\ []((loopAlive /\ ~cancelled) => (now <= nextTick /\ nextTick <= now + TickerPeriod))
    /\ cancelled ~> ~loopAlive
    /\ [][~loopAlive =>
            /\ last'.op # "Sweep"
            /\ \A k \in DOMAIN services \ DOMAIN services' :
                    last'.op = "Deregister" /\ last'.arg = k
            /\ \A p \in Stored : heap[p].Healthy => heap'[p].Healthy
         ]_vars

\* after Close the loop has returned and a record that had no heartbeat for
\* more than 120s is still in the map and healthy
C22_Witness ==
    /\ cancelled
    /\ ~loopAlive
    /\ \E p \in Stored : heap[p].Healthy /\ now - heap[p].LastSeen > RemoveAfter

\* C24: whenever a record leaves the map, by the sweep or by Deregister, the
\* ServiceInfo struct that was stored for it (the one the registering caller
\* and Discover's callers still hold) has Healthy = false after that step.
C24_RemovedIsUnhealthy ==
    [][\A k \in DOMAIN services \ DOMAIN services' : ~heap'[services[k]].Healthy]_vars

\* C29: a record the sweep removes has passed through Unhealthy: in the state
\* immediately before the sweep step that deletes it, the record is in the map
\* with Healthy = false.
C29_UnhealthyBeforeRemoved ==
    [][last'.op = "Sweep" =>
          \A k \in DOMAIN services \ DOMAIN services' : ~heap[services[k]].Healthy]_vars

\* C30: a record whose owner calls HealthCheck or Register at intervals of at
\* most 60s is never marked unhealthy and never removed by the sweep, at any
\* phase of the ticks: every stored record is healthy, and a sweep pass changes
\* neither the map nor any record.
C30_HeartbeatKeepsRecord ==
    /\ [](\A p \in Stored : heap[p].Healthy)
    /\ [][last'.op = "Sweep" => (services' = services /\ heap' = heap)]_vars

\* a sweep pass found a record whose last heartbeat was exactly 60s before,
\* and another whose heartbeat fell between two ticks
C30_Witness ==
    /\ last.op = "Sweep"
    /\ \E p \in Stored : heap[p].Healthy /\ now - heap[p].LastSeen = UnhealthyAfter
    /\ \E p \in Stored : heap[p].Healthy /\ heap[p].LastSeen % TickerPeriod # 0

\* C31: one sweep pass leaves every record of age at most 60s unchanged, sets
\* only Healthy (to false) of the records of age in (60s, 120s] and keeps them
\* in the map with their LastSeen, and removes exactly the records of age
\* above 120s.
C31_SweepFrame ==
    [][last'.op = "Sweep" =>
          /\ DOMAIN services' \subseteq DOMAIN services
          /\ \A k \in DOMAIN services :
                LET p == services[k]
                    age == now - heap[p].LastSeen
                IN
                /\ age <= UnhealthyAfter =>
                      (k \in DOMAIN services' /\ services'[k] = p /\ heap'[p] = heap[p])
                /\ (age > UnhealthyAfter /\ age <= RemoveAfter) =>
                      /\ k \in DOMAIN services'
                      /\ services'[k] = p
                      /\ heap'[p] = [heap[p] EXCEPT !.Healthy = FALSE]
                /\ age > RemoveAfter => k \notin DOMAIN services'
      ]_vars

\* a sweep pass kept, unhealthy, a record of age exactly 120s and left out of
\* the map a record of age above 120s
C31_Witness ==
    /\ last.op = "Sweep"
    /\ \E p \in Stored : ~heap[p].Healthy /\ now - heap[p].LastSeen = RemoveAfter
    /\ \E q \in Ptrs \ Stored : heap[q] # Nil /\ now - heap[q].LastSeen > RemoveAfter

\* C32: HealthCheck on an ID the map does not hold returns nil, creates no
\* record and leaves the map and every struct unchanged; an ID enters the map
\* only by Register.
C32_HealthCheckAbsentNoOp ==
    [][/\ (last'.op = "HealthCheck" /\ last'.arg \notin DOMAIN services) =>
            /\ last'.err = NoErr
            /\ services' = services
            /\ heap' = heap
       /\ \A k \in DOMAIN services' \ DOMAIN services : last'.op = "Register"
      ]_vars

\* HealthCheck returned for an ID whose record the sweep had removed
C32_Witness ==
    /\ last.op = "HealthCheck"
    /\ last.prev = "absent"
    /\ last.err = NoErr
    /\ last.arg \notin DOMAIN services
    /\ \E p \in Ptrs \ Stored :
          /\ heap[p] # Nil
          /\ heap[p].ID = last.arg
          /\ ~heap[p].Healthy
          /\ now - heap[p].LastSeen > RemoveAfter

\* C37: in every reachable state each entry of the map is stored under the key
\* equal to its record's ID, and no two keys refer to the same record.
C37_KeyIsRecordID ==
    /\ \A k \in DOMAIN services : heap[services[k]].ID = k
    /\ \A k1, k2 \in DOMAIN services : services[k1] = services[k2] => k1 = k2

\* C38: registries returned by separate NewRegistry("memory", ...) calls own
\* their records exclusively: Discover through one returns only the records
\* registered through it, and Close on one leaves the context of the others,
\* and with it their sweep, live.
C38_RegistriesOwnRecords ==
    [][/\ last'.op = "Discover" =>
            \A p \in last'.result : p = PtrOf(registry.caller)
       /\ (last'.op = "Close" /\ ~cancelled) =>
            \A h \in registry.handles \ {registry.caller} : ~InstanceDone(h)'
      ]_vars

\* C23: Close never deadlocks: in every state, with Close called at any point
\* among calls in flight and a sweep in progress, a goroutine that holds the
\* lock is in a call it can go on with, and whenever some goroutine is in a
\* call at least one of them is not waiting for a lock it cannot get.
C23_CloseNeverDeadlocks ==
    /\ mutex.writer # NoStr => (mutex.writer \in InFlight /\ ~Blocked(mutex.writer))
    /\ \A g \in mutex.readers : g \in InFlight /\ ~Blocked(g)
    /\ InFlight # {} => \E g \in InFlight : ~Blocked(g)

\* Close has been called while a caller holds the lock and the sweep, its
\* tick served, waits for the lock
C23_Witness ==
    /\ last.op = "Close"
    /\ cancelled
    /\ loopAlive
    /\ Blocked(Sweeper)
    /\ \E g \in Goroutines : mutex.writer = g

----------------------------------------------------------------------------
(* Lease-store backend: properties *)

\* C2: after Register(svc) succeeds, Discover(svc.Name) on the same store
\* contains an entry with ID = svc.ID and Healthy = true, whatever Healthy
\* value the caller put in the struct.
C2_EtcdRegisterThenDiscover ==
    (last.op = "Register" /\ last.err = NoErr) =>
        \E r \in EtcdDiscoverResult(heap[last.arg].Name) :
            r.ID = heap[last.arg].ID /\ r.Healthy

\* C4: after Deregister(id) succeeds, no Discover for any service name returns
\* a record with that ID, whatever Register calls were made for the ID before.
C4_EtcdDeregisterRemovesID ==
    (last.op = "Deregister" /\ last.err = NoErr) =>
        \A name \in Names : \A r \in EtcdDiscoverResult(name) : r.ID # last.arg

\* the keys of the store whose record carries this ID
KeysWithID(id) == {k \in DOMAIN kv : kv[k].value.id = id}

\* C11: in every state of the store at most one key written by the backend
\* carries a given ID, also after the ID was registered again under another
\* Name.
C11_StoredIDUnique == \A id \in IDs : Cardinality(KeysWithID(id)) <= 1

\* C13: when Deregister returns an error ("not found" exactly when the
\* bookkeeping lacks the ID, or a failed Delete), the bookkeeping, the keys of
\* the store and its leases are as before the call.
C13_DeregisterErrorChangesNothing ==
    [][(last'.op = "Deregister" /\ last'.err # NoErr) =>
          /\ services' = services
          /\ kv' = kv
          /\ leases' = leases
          /\ heap' = heap
          /\ last'.err = "not found" <=> last'.arg \notin DOMAIN services
      ]_vars

\* a Deregister has failed on the store's Delete for an ID whose key is stored
C13_Witness ==
    /\ last.op = "Deregister"
    /\ last.err = "failed to deregister service"
    /\ last.arg \in DOMAIN services
    /\ Key(heap[services[last.arg]].Name, last.arg) \in DOMAIN kv

\* C18: in no interleaving of Register, Deregister, Discover and HealthCheck is
\* one goroutine about to read or write the bookkeeping map e.services while
\* another is about to write it (two accesses with no lock ordering them).
C18_NoMapRace ==
    \A g \in MapWriters : (MapWriters \cup MapReaders) \ {g} = {}

\* C19: at most one keep-alive goroutine exists for a backend instance, however
\* many Register calls have succeeded.
C19_OneKeepAliveTask == Cardinality(tasks) <= 1

\* C20: once Close was called no lease is renewed by the instance, and every
\* keep-alive goroutine started by an earlier Register eventually returns.
C20_CloseStopsKeepAlive ==
    /\ [](cancelled => \A l \in Granted : ~leases[l].renewing)
    /\ cancelled ~> (tasks = {})

\* Close was called on an instance that holds a registered record, and the
\* keep-alive goroutines have returned
C20_Witness ==
    /\ cancelled
    /\ services # <<>>
    /\ tasks = {}

\* C33: lease-store Register is atomic with respect to failure: a Register that
\* returns an error (Grant, Put or KeepAlive failed) leaves the store and the
\* instance's bookkeeping as they were, so that it adds no record that
\* Discover returns and Deregister on the instance cannot remove.
C33_RegisterFailureAtomic ==
    [][(last'.op = "Register" /\ last'.err # NoErr) =>
          /\ kv' = kv
          /\ services' = services
          /\ \A name \in Names : EtcdDiscoverResult(name)' = EtcdDiscoverResult(name)
      ]_vars

\* C34: every lease the instance keeps renewing has a key of the store bound
\* to it whose record is in the instance's bookkeeping: deregistering an ID or
\* registering it again leaves no renewed lease without its record.
C34_NoOrphanedRenewedLease ==
    \A l \in Granted :
        leases[l].renewing =>
            \E k \in DOMAIN kv : kv[k].lease = l /\ kv[k].value.id \in DOMAIN services

\* C35: lease-store Discover(name) returns only records whose Name equals
\* name, also for names that hold the '/' character.
C35_DiscoverOnlyThatName ==
    [][(last'.op = "Discover" /\ last'.err = NoErr) =>
          \A r \in last'.result : r.Name = last'.arg]_vars

WellFormed(serviceName) ==
    {kv[k].value : k \in {x \in DOMAIN kv :
        HasPrefix(x, Prefix(serviceName)) /\ ~Malformed(kv[x].value)}}

\* C25: lease-store Discover skips a value under the scanned prefix that does
\* not deserialize and goes on: the only error it returns is that of the failed
\* Get, and when it returns nil the result holds a record for every well-formed
\* value under the prefix and nothing else.
C25_DiscoverSkipsMalformed ==
    [][(IsEtcd /\ last'.op = "Discover") =>
          /\ last'.err \in {NoErr, "failed to discover services"}
          /\ last'.err = NoErr =>
                /\ \A v \in WellFormed(last'.arg) : Unmarshal(v) \in last'.result
                /\ \A r \in last'.result : \E v \in WellFormed(last'.arg) : r = Unmarshal(v)
      ]_vars

\* a Discover returned without error the record of a well-formed value while
\* the prefix also holds bytes that are no JSON
C25_Witness ==
    /\ IsEtcd
    /\ last.op = "Discover"
    /\ last.err = NoErr
    /\ last.result # {}
    /\ \E k \in DOMAIN kv : HasPrefix(k, Prefix(last.arg)) /\ kv[k].value = BadJSON

\* C27: lease-store HealthCheck only verifies: it returns nil only when the ID
\* is in the local bookkeeping and the key /services/{Name}/{ID} is in the
\* store; for an unknown ID and for an absent key (expired or deleted) it
\* returns that error, and for a known ID with its key present the only error
\* is that of the failed request.  It changes neither the store nor its leases
\* nor the bookkeeping.
C27_HealthCheckVerifiesOnly ==
    [][(IsEtcd /\ last'.op = "HealthCheck") =>
          LET id == last'.arg
              known == id \in DOMAIN services
              present == known /\ Key(heap[services[id]].Name, id) \in DOMAIN kv
          IN
          /\ last'.err = NoErr => (known /\ present)
          /\ ~known => last'.err = "not found"
          /\ (known /\ ~present) =>
                last'.err \in {"not found in etcd", "failed to check service health"}
          /\ (known /\ present) =>
                last'.err \in {NoErr, "failed to check service health"}
          /\ kv' = kv
          /\ leases' = leases
          /\ leaseID' = leaseID
          /\ services' = services
          /\ heap' = heap
      ]_vars

\* HealthCheck of a registered ID reported that its key, bound to a lease that
\* was not kept alive, is gone from the store
C27_Witness ==
    /\ IsEtcd
    /\ last.op = "HealthCheck"
    /\ last.arg \in DOMAIN services
    /\ last.err = "not found in etcd"
    /\ now >= LeaseTTL
    /\ \E l \in 1..MaxLeases : leases[l] = NoLease /\ l <= leaseID

\* the entries the backend holds that a Discover of the name is to report: the
\* well-formed values under the prefix, or the agent's passing services
Matching(serviceName) ==
    IF IsEtcd THEN WellFormed(serviceName)
    ELSE {id \in DOMAIN catalog : catalog[id].Name = serviceName /\ catalog[id].passing}

\* C26: lease-store and coordination-service Discover: a Discover that returns
\* an error returns no list, and one that returns nil with an empty list does so
\* only when the backend holds no matching entry (the request succeeded).
C26_DiscoverErrorOrAnswer ==
    [][last'.op = "Discover" =>
          /\ last'.err # NoErr => last'.result = {}
          /\ (last'.err = NoErr /\ last'.result = {}) => Matching(last'.arg) = {}
          /\ (last'.err = NoErr /\ last'.result # {}) => Matching(last'.arg) # {}
      ]_vars

\* the request of a Discover failed while the agent holds a passing service
\* of that name: an error and no list
C26_Witness ==
    /\ IsConsul
    /\ last.op = "Discover"
    /\ last.err # NoErr
    /\ last.result = {}
    /\ Matching(last.arg) # {}

\* C28: on the lease-store and the coordination-service backend a Register,
\* Deregister or Discover called with a context that is already cancelled or
\* expired returns an error and changes nothing in the store, its leases or the
\* agent's catalog.
C28_CancelledContextRespected ==
    [][(ctxDone /\ last'.op \in {"Register", "Deregister", "Discover"}) =>
          /\ last'.err # NoErr
          /\ kv' = kv
          /\ leases' = leases
          /\ catalog' = catalog
      ]_vars

----------------------------------------------------------------------------
(* The factory: properties *)

\* C14: NewRegistry returns a backend and no error for every type string and
\* address: "etcd" and "consul" in any letter case give that backend when its
\* constructor returned no error and the in-memory backend when it returned
\* one; every other type string gives the in-memory backend.
C14_FactoryNeverFails ==
    registry # NoRegistry =>
        LET etcd == registry.type \in {<<"e", "t", "c", "d">>, <<"E", "T", "C", "D">>,
                                       <<"E", "t", "c", "d">>}
            consul == registry.type \in {<<"c", "o", "n", "s", "u", "l">>,
                                         <<"C", "o", "n", "s", "u", "l">>}
        IN  /\ registry.kind \in {"etcd", "consul", "memory"}
            /\ last.op = "NewRegistry" => last.err = NoErr
            /\ etcd => registry.kind = IF registry.newClient = "ok" THEN "etcd" ELSE "memory"
            /\ consul => registry.kind =
                            IF registry.newClient = "ok" /\ registry.leader = "ok"
                            THEN "consul" ELSE "memory"
            /\ (~etcd /\ ~consul) => registry.kind = "memory"

\* NewRegistry("ETCD", "etcd-1:2379,etcd-2:2379") has returned the lease-store backend
C14_Witness ==
    /\ registry # NoRegistry
    /\ registry.type = <<"E", "T", "C", "D">>
    /\ Len(registry.address) = 3
    /\ IsEtcd

\* C15: a registry built for type etcd with an endpoint at which no store is
\* reachable is the in-memory backend, and Register and Discover on it succeed.
C15_UnreachableEtcdFallsBack ==
    (registry # NoRegistry /\ ToLower(registry.type) = EtcdType /\ ~registry.reachable) =>
        /\ registry.kind = "memory"
        /\ last.op \in {"Register", "Discover"} => last.err = NoErr

\* C16: NewConsulRegistry returns a backend only after a successful leader
\* query; when the query fails it returns an error and no backend, and the
\* factory returns the in-memory backend.
C16_ConsulProbeFailsFast ==
    (registry # NoRegistry /\ ToLower(registry.type) = ConsulType) =>
        LET r == NewConsulRegistry(registry.address, registry.newClient, registry.leader) IN
        /\ registry.leader = "fail" => (r.reg = "nil" /\ r.err # NoErr /\ registry.kind = "memory")
        /\ registry.kind = "consul" => (registry.leader = "ok" /\ registry.reachable)
        /\ r.reg = "consul" <=> r.err = NoErr

\* NewRegistry("consul", ...) has returned the in-memory backend because the
\* leader query failed on a client that was created
C16_Witness ==
    /\ registry # NoRegistry
    /\ ToLower(registry.type) = ConsulType
    /\ registry.newClient = "ok"
    /\ registry.leader = "fail"
    /\ registry.kind = "memory"

\* C21: a record that was registered and then abandoned by Close (never
\* deregistered) is eventually absent from the store, so from every Discover of
\* any client: a stored key is bound to a lease, is never present after the
\* lease's deadline, the deadline is never more than the 30s TTL ahead, and
\* after Close the store eventually holds no key of the instance.
C21_AbandonedRecordExpires ==
    /\ [](\A k \in DOMAIN kv :
            /\ kv[k].lease \in Granted
            /\ now <= leases[kv[k].lease].deadline
            /\ leases[kv[k].lease].deadline <= now + LeaseTTL)
    /\ cancelled ~> (kv = <<>>)

\* Close was called on an instance that still holds a registered record in
\* its bookkeeping, and the store has dropped every key once the TTL ran out
C21_Witness ==
    /\ cancelled
    /\ services # <<>>
    /\ kv = <<>>
    /\ now >= LeaseTTL
    /\ \A name \in Names : EtcdDiscoverResult(name) = {}

====
